---- MODULE Spec2Model ----
(***************************************************************************)
(* A model of fb_tester.py: the permissive configuration parser            *)
(* (parse_firebase_config), the cleaning step of the tester                *)
(* (FirebaseConfigTester._parse_config), main and the sequence of probes   *)
(* run by FirebaseConfigTester.run_all_checks.                             *)
(*                                                                         *)
(* Text is a sequence of one-character strings, so that parsing, escaping  *)
(* and trimming are computed character by character as the code does.      *)
(***************************************************************************)
EXTENDS Integers, Sequences, FiniteSets, TLC

(* ----------------------------------------------------------------------- *)
(* Characters                                                              *)
(* ----------------------------------------------------------------------- *)
BS == "\\"
DQ == "\""
SQ == "'"
NL == "\n"
TAB == "\t"
CR == "\r"
FF == "\f"
SP == " "
\* Characters with no TLA+ escape are named by a token.
BSP == "<08>"
VT == "<0B>"
BEL == "<07>"
OtherChar == "<??>"

\* The printable ASCII characters, code 32 (index 1) to code 126.
Ascii ==
  <<" ", "!", "\"", "#", "$", "%", "&", "'", "(", ")", "*", "+",
     ",", "-", ".", "/", "0", "1", "2", "3", "4", "5", "6", "7",
     "8", "9", ":", ";", "<", "=", ">", "?", "@", "A", "B", "C",
     "D", "E", "F", "G", "H", "I", "J", "K", "L", "M", "N", "O",
     "P", "Q", "R", "S", "T", "U", "V", "W", "X", "Y", "Z", "[",
     "\\", "]", "^", "_", "<60>", "a", "b", "c", "d", "e", "f", "g",
     "h", "i", "j", "k", "l", "m", "n", "o", "p", "q", "r", "s",
     "t", "u", "v", "w", "x", "y", "z", "{", "|", "}", "~">>

Digits == {"0", "1", "2", "3", "4", "5", "6", "7", "8", "9"}
Letters == {Ascii[i] : i \in (34..59) \cup (66..91)}
\* \w of Python's re on str patterns, over ASCII.
WordChars == Letters \cup Digits \cup {"_"}
\* \s of Python's re and the characters str.strip() removes, over ASCII.
PyWhitespace == {SP, TAB, NL, CR, FF, VT}
\* The whitespace json.loads skips.
JsonWhitespace == {SP, TAB, NL, CR}
\* Characters below code 32, which a strict JSON string may not hold raw.
ControlChars == {TAB, NL, CR, FF, VT, BSP, BEL}

DigitVal(c) == CHOOSE n \in 0..9 : Ascii[17 + n] = c
HexChars == Digits \cup {"a", "b", "c", "d", "e", "f", "A", "B", "C", "D", "E", "F"}
HexVal(c) ==
  IF c \in Digits THEN DigitVal(c)
  ELSE IF c \in {"a", "A"} THEN 10
  ELSE IF c \in {"b", "B"} THEN 11
  ELSE IF c \in {"c", "C"} THEN 12
  ELSE IF c \in {"d", "D"} THEN 13
  ELSE IF c \in {"e", "E"} THEN 14
  ELSE 15

\* chr(n) for the codes the model can hold.
CodeToChar(n) ==
  IF n >= 32 /\ n <= 126 THEN Ascii[n - 31]
  ELSE IF n = 10 THEN NL
  ELSE IF n = 9 THEN TAB
  ELSE IF n = 13 THEN CR
  ELSE IF n = 12 THEN FF
  ELSE IF n = 8 THEN BSP
  ELSE IF n = 11 THEN VT
  ELSE IF n = 7 THEN BEL
  ELSE OtherChar

(* ----------------------------------------------------------------------- *)
(* Python str operations                                                   *)
(* ----------------------------------------------------------------------- *)
\* s[i:] and s[:i] with 1-based TLA+ positions.
From(s, i) == SubSeq(s, i, Len(s))
Upto(s, i) == SubSeq(s, 1, i)

RECURSIVE LStripChars(_, _)
LStripChars(s, cs) ==
  IF s # <<>> /\ Head(s) \in cs THEN LStripChars(Tail(s), cs) ELSE s

RECURSIVE RStripChars(_, _)
RStripChars(s, cs) ==
  IF s # <<>> /\ s[Len(s)] \in cs THEN RStripChars(Upto(s, Len(s) - 1), cs) ELSE s

\* str.strip(chars)
StripChars(s, cs) == RStripChars(LStripChars(s, cs), cs)
\* str.strip()
Strip(s) == StripChars(s, PyWhitespace)

\* s.startswith(p) at position i (1-based): p occurs in s starting at i.
MatchAt(s, i, p) ==
  /\ i + Len(p) - 1 <= Len(s)
  /\ \A k \in 1..Len(p) : s[i + k - 1] = p[k]

StartsWith(s, p) == MatchAt(s, 1, p)
EndsWith(s, p) == Len(p) <= Len(s) /\ MatchAt(s, Len(s) - Len(p) + 1, p)
\* p in s
Contains(s, p) == \E i \in 1..(Len(s) + 1) : MatchAt(s, i, p)

\* min(S) for a non-empty set of positions.
Least(S) == CHOOSE k \in S : \A j \in S : k <= j

\* The first position >= i where p occurs in s, or 0: s.find(p, i) + 1.
FindFrom(s, i, p) ==
  LET hits == {k \in i..(Len(s) + 1) : MatchAt(s, k, p)}
  IN  IF hits = {} THEN 0 ELSE Least(hits)

\* s.split(c) for a one-character separator.
RECURSIVE SplitOn(_, _)
SplitOn(s, c) ==
  LET hits == {k \in 1..Len(s) : s[k] = c}
      i == Least(hits)
  IN  IF hits = {} THEN <<s>>
      ELSE <<Upto(s, i - 1)>> \o SplitOn(From(s, i + 1), c)

\* c.join(parts)
RECURSIVE JoinWith(_, _)
JoinWith(parts, c) ==
  IF parts = <<>> THEN <<>>
  ELSE IF Len(parts) = 1 THEN parts[1]
  ELSE parts[1] \o <<c>> \o JoinWith(Tail(parts), c)

\* The position after the characters of cs that start at i.
RECURSIVE SkipChars(_, _, _)
SkipChars(s, i, cs) ==
  IF i <= Len(s) /\ s[i] \in cs THEN SkipChars(s, i + 1, cs) ELSE i

(* ----------------------------------------------------------------------- *)
(* JSON values                                                             *)
(*   string  [t |-> "str",   v |-> text]                                   *)
(*   int     [t |-> "int",   v |-> <<n>>]                                  *)
(*   float   [t |-> "float", v |-> lexeme]                                 *)
(*   bool    [t |-> "bool",  v |-> <<b>>]                                  *)
(*   None    [t |-> "null",  v |-> <<>>]                                   *)
(*   list    [t |-> "arr",   v |-> sequence of values]                     *)
(*   dict    [t |-> "obj",   v |-> sequence of <<key text, value>>, keys   *)
(*            unique, in insertion order as a Python dict keeps them]      *)
(* ----------------------------------------------------------------------- *)
JStr(s) == [t |-> "str", v |-> s]
JInt(n) == [t |-> "int", v |-> <<n>>]
JFloat(s) == [t |-> "float", v |-> s]
JBool(b) == [t |-> "bool", v |-> <<b>>]
JNull == [t |-> "null", v |-> <<>>]
JArr(vs) == [t |-> "arr", v |-> vs]
JObj(ps) == [t |-> "obj", v |-> ps]
EmptyDict == JObj(<<>>)

IsDict(x) == x.t = "obj"

\* key in d
HasKey(d, k) == IsDict(d) /\ \E i \in 1..Len(d.v) : d.v[i][1] = k
\* d[key]
Get(d, k) == d.v[CHOOSE i \in 1..Len(d.v) : d.v[i][1] = k][2]
\* d.keys()
Keys(d) == {d.v[i][1] : i \in 1..Len(d.v)}

\* d[key] = value: a present key keeps its place, a new key is appended.
DictPut(ps, k, val) ==
  IF \E i \in 1..Len(ps) : ps[i][1] = k
  THEN [i \in 1..Len(ps) |-> IF ps[i][1] = k THEN <<k, val>> ELSE ps[i]]
  ELSE Append(ps, <<k, val>>)

\* Equality of two dicts as Python compares them: same keys, same values.
DictEq(a, b) ==
  /\ Keys(a) = Keys(b)
  /\ \A k \in Keys(a) : Get(a, k) = Get(b, k)

\* bool(x): Python truthiness of a decoded value.
Truthy(x) ==
  CASE x.t = "str" -> x.v # <<>>
    [] x.t = "int" -> x.v[1] # 0
    [] x.t = "float" -> \E i \in 1..Len(x.v) :
                          /\ x.v[i] \in (Digits \ {"0"}) \cup {"N", "I"}
                          /\ \A j \in 1..i : x.v[j] \notin {"e", "E"}
    [] x.t = "bool" -> x.v[1]
    [] x.t = "null" -> FALSE
    [] x.t = "arr" -> x.v # <<>>
    [] x.t = "obj" -> x.v # <<>>

(* ----------------------------------------------------------------------- *)
(* json.loads: the decoder of Python's json module (strict mode)           *)
(* A scan returns [ok, v, i]: whether it matched, the value, and the       *)
(* position after it.                                                      *)
(* ----------------------------------------------------------------------- *)
NoParse == [ok |-> FALSE, v |-> JNull, i |-> 0]
Parsed(val, j) == [ok |-> TRUE, v |-> val, i |-> j]

\* The escapes json accepts after a backslash (BACKSLASH in json.decoder).
JsonUnescape(c) ==
  CASE c = DQ -> DQ
    [] c = BS -> BS
    [] c = "/" -> "/"
    [] c = "b" -> BSP
    [] c = "f" -> FF
    [] c = "n" -> NL
    [] c = "r" -> CR
    [] c = "t" -> TAB

\* The value of the four hex digits at s[j..j+3].
Hex4(s, j) ==
  HexVal(s[j]) * 4096 + HexVal(s[j + 1]) * 256 + HexVal(s[j + 2]) * 16 + HexVal(s[j + 3])

\* py_scanstring: the string whose opening quote is at j - 1.
RECURSIVE ScanString(_, _, _)
ScanString(s, j, acc) ==
  IF j > Len(s) THEN NoParse
  ELSE IF s[j] = DQ THEN Parsed(acc, j + 1)
  ELSE IF s[j] \in ControlChars THEN NoParse
  ELSE IF s[j] # BS THEN ScanString(s, j + 1, Append(acc, s[j]))
  ELSE IF j + 1 > Len(s) THEN NoParse
  ELSE IF s[j + 1] = "u" THEN
         IF j + 5 <= Len(s) /\ \A k \in (j + 2)..(j + 5) : s[k] \in HexChars
         THEN ScanString(s, j + 6, Append(acc, CodeToChar(Hex4(s, j + 2))))
         ELSE NoParse
  ELSE IF s[j + 1] \in {DQ, BS, "/", "b", "f", "n", "r", "t"}
         THEN ScanString(s, j + 2, Append(acc, JsonUnescape(s[j + 1])))
  ELSE NoParse

\* int(digits)
RECURSIVE DigitsToInt(_, _)
DigitsToInt(s, acc) ==
  IF s = <<>> THEN acc ELSE DigitsToInt(Tail(s), acc * 10 + DigitVal(Head(s)))

\* NUMBER_RE of json.scanner: (-?(?:0|[1-9][0-9]*))(\.[0-9]+)?([eE][-+]?[0-9]+)?
ScanNumber(s, i) ==
  LET neg == i <= Len(s) /\ s[i] = "-"
      d1 == IF neg THEN i + 1 ELSE i
      intEnd == IF d1 <= Len(s) /\ s[d1] = "0" THEN d1 + 1
                ELSE SkipChars(s, d1, Digits)
      fracEnd == IF intEnd + 1 <= Len(s) /\ s[intEnd] = "." /\ s[intEnd + 1] \in Digits
                 THEN SkipChars(s, intEnd + 1, Digits) ELSE intEnd
      e1 == IF fracEnd + 1 <= Len(s) /\ s[fracEnd] \in {"e", "E"}
                 /\ s[fracEnd + 1] \in {"-", "+"}
            THEN fracEnd + 2 ELSE fracEnd + 1
      expEnd == IF fracEnd <= Len(s) /\ s[fracEnd] \in {"e", "E"}
                   /\ e1 <= Len(s) /\ s[e1] \in Digits
                THEN SkipChars(s, e1, Digits) ELSE fracEnd
      n == DigitsToInt(SubSeq(s, d1, intEnd - 1), 0)
  IN  IF intEnd = d1 THEN NoParse
      ELSE IF expEnd = intEnd THEN Parsed(JInt(IF neg THEN 0 - n ELSE n), intEnd)
      ELSE Parsed(JFloat(SubSeq(s, i, expEnd - 1)), expEnd)

LitNull == <<"n", "u", "l", "l">>
LitTrue == <<"t", "r", "u", "e">>
LitFalse == <<"f", "a", "l", "s", "e">>
LitNaN == <<"N", "a", "N">>
LitInfinity == <<"I", "n", "f", "i", "n", "i", "t", "y">>

\* _scan_once, JSONObject and JSONArray of json.scanner / json.decoder.
RECURSIVE ScanValue(_, _)
RECURSIVE ScanMembers(_, _, _)
RECURSIVE ScanElements(_, _, _)

\* The members of an object, j at the opening quote of the next key.
ScanMembers(s, j, acc) ==
  IF j > Len(s) \/ s[j] # DQ THEN NoParse
  ELSE LET key == ScanString(s, j + 1, <<>>)
           c == IF key.ok THEN SkipChars(s, key.i, JsonWhitespace) ELSE 0
       IN  IF ~key.ok \/ c > Len(s) \/ s[c] # ":" THEN NoParse
           ELSE LET val == ScanValue(s, SkipChars(s, c + 1, JsonWhitespace))
                    e == IF val.ok THEN SkipChars(s, val.i, JsonWhitespace) ELSE 0
                    acc2 == DictPut(acc, key.v, val.v)
                IN  IF ~val.ok \/ e > Len(s) THEN NoParse
                    ELSE IF s[e] = "}" THEN Parsed(JObj(acc2), e + 1)
                    ELSE IF s[e] = ","
                      THEN ScanMembers(s, SkipChars(s, e + 1, JsonWhitespace), acc2)
                    ELSE NoParse

\* The elements of an array, j at the start of the next element.
ScanElements(s, j, acc) ==
  LET val == ScanValue(s, j)
      e == IF val.ok THEN SkipChars(s, val.i, JsonWhitespace) ELSE 0
  IN  IF ~val.ok \/ e > Len(s) THEN NoParse
      ELSE IF s[e] = "]" THEN Parsed(JArr(Append(acc, val.v)), e + 1)
      ELSE IF s[e] = ","
        THEN ScanElements(s, SkipChars(s, e + 1, JsonWhitespace), Append(acc, val.v))
      ELSE NoParse

ScanValue(s, i) ==
  IF i > Len(s) THEN NoParse
  ELSE IF s[i] = DQ THEN
         LET r == ScanString(s, i + 1, <<>>)
         IN  IF r.ok THEN Parsed(JStr(r.v), r.i) ELSE NoParse
  ELSE IF s[i] = "{" THEN
         LET j == SkipChars(s, i + 1, JsonWhitespace)
         IN  IF j <= Len(s) /\ s[j] = "}" THEN Parsed(EmptyDict, j + 1)
             ELSE ScanMembers(s, j, <<>>)
  ELSE IF s[i] = "[" THEN
         LET j == SkipChars(s, i + 1, JsonWhitespace)
         IN  IF j <= Len(s) /\ s[j] = "]" THEN Parsed(JArr(<<>>), j + 1)
             ELSE ScanElements(s, j, <<>>)
  ELSE IF MatchAt(s, i, LitNull) THEN Parsed(JNull, i + 4)
  ELSE IF MatchAt(s, i, LitTrue) THEN Parsed(JBool(TRUE), i + 4)
  ELSE IF MatchAt(s, i, LitFalse) THEN Parsed(JBool(FALSE), i + 5)
  ELSE IF ScanNumber(s, i).ok THEN ScanNumber(s, i)
  ELSE IF MatchAt(s, i, LitNaN) THEN Parsed(JFloat(LitNaN), i + 3)
  ELSE IF MatchAt(s, i, LitInfinity) THEN Parsed(JFloat(LitInfinity), i + 8)
  ELSE IF MatchAt(s, i, <<"-">> \o LitInfinity) THEN Parsed(JFloat(<<"-">> \o LitInfinity), i + 9)
  ELSE NoParse

\* json.loads(s): [ok, v]; ok = FALSE stands for json.JSONDecodeError.
\* The end of json.loads: r is the value scanned, and nothing but whitespace
\* may follow it.
JsonLoadsEnd(s, r) ==
  IF r.ok /\ SkipChars(s, r.i, JsonWhitespace) = Len(s) + 1
  THEN [ok |-> TRUE, v |-> r.v]
  ELSE [ok |-> FALSE, v |-> JNull]

JsonLoads(s) == JsonLoadsEnd(s, ScanValue(s, SkipChars(s, 1, JsonWhitespace)))

(* ----------------------------------------------------------------------- *)
(* json.dumps, str() and the unicode_escape codec                          *)
(* ----------------------------------------------------------------------- *)
\* str(n) for an integer n >= 0.
RECURSIVE NatToText(_)
NatToText(n) ==
  IF n < 10 THEN <<Ascii[17 + n]>>
  ELSE Append(NatToText(n \div 10), Ascii[17 + (n % 10)])

IntToText(n) == IF n < 0 THEN <<"-">> \o NatToText(0 - n) ELSE NatToText(n)

\* ESCAPE_ASCII of json.encoder: one character of a string, as json.dumps writes it.
JsonEscapeChar(c) ==
  CASE c = DQ -> <<BS, DQ>>
    [] c = BS -> <<BS, BS>>
    [] c = NL -> <<BS, "n">>
    [] c = CR -> <<BS, "r">>
    [] c = TAB -> <<BS, "t">>
    [] c = FF -> <<BS, "f">>
    [] c = BSP -> <<BS, "b">>
    [] c = VT -> <<BS, "u", "0", "0", "0", "b">>
    [] c = BEL -> <<BS, "u", "0", "0", "0", "7">>
    [] OTHER -> <<c>>

RECURSIVE JsonEscape(_)
JsonEscape(s) ==
  IF s = <<>> THEN <<>> ELSE JsonEscapeChar(Head(s)) \o JsonEscape(Tail(s))

DumpsString(s) == <<DQ>> \o JsonEscape(s) \o <<DQ>>

\* json.dumps(x) with the default separators ", " and ": ".
RECURSIVE Dumps(_)
RECURSIVE DumpsItems(_, _)
DumpsItems(items, isObj) ==
  IF items = <<>> THEN <<>>
  ELSE LET one == IF isObj
                  THEN DumpsString(items[1][1]) \o <<":", SP>> \o Dumps(items[1][2])
                  ELSE Dumps(items[1])
       IN  IF Len(items) = 1 THEN one
           ELSE one \o <<",", SP>> \o DumpsItems(Tail(items), isObj)

Dumps(x) ==
  CASE x.t = "str" -> DumpsString(x.v)
    [] x.t = "int" -> IntToText(x.v[1])
    [] x.t = "float" -> x.v
    [] x.t = "bool" -> IF x.v[1] THEN LitTrue ELSE LitFalse
    [] x.t = "null" -> LitNull
    [] x.t = "arr" -> <<"[">> \o DumpsItems(x.v, FALSE) \o <<"]">>
    [] x.t = "obj" -> <<"{">> \o DumpsItems(x.v, TRUE) \o <<"}">>

\* repr(s) of a str: single quotes, unless s holds one and no double quote.
ReprChar(c, q) ==
  CASE c = BS -> <<BS, BS>>
    [] c = q -> <<BS, q>>
    [] c = NL -> <<BS, "n">>
    [] c = CR -> <<BS, "r">>
    [] c = TAB -> <<BS, "t">>
    [] c = FF -> <<BS, "x", "0", "c">>
    [] c = BSP -> <<BS, "x", "0", "8">>
    [] c = VT -> <<BS, "x", "0", "b">>
    [] c = BEL -> <<BS, "x", "0", "7">>
    [] OTHER -> <<c>>

RECURSIVE ReprChars(_, _)
ReprChars(s, q) ==
  IF s = <<>> THEN <<>> ELSE ReprChar(Head(s), q) \o ReprChars(Tail(s), q)

ReprString(s) ==
  LET hasS == \E i \in 1..Len(s) : s[i] = SQ
      hasD == \E i \in 1..Len(s) : s[i] = DQ
      q == IF hasS /\ ~hasD THEN DQ ELSE SQ
  IN  <<q>> \o ReprChars(s, q) \o <<q>>

\* repr(x) of a decoded value.
RECURSIVE PyRepr(_)
RECURSIVE ReprItems(_, _)
ReprItems(items, isObj) ==
  IF items = <<>> THEN <<>>
  ELSE LET one == IF isObj
                  THEN ReprString(items[1][1]) \o <<":", SP>> \o PyRepr(items[1][2])
                  ELSE PyRepr(items[1])
       IN  IF Len(items) = 1 THEN one
           ELSE one \o <<",", SP>> \o ReprItems(Tail(items), isObj)

PyRepr(x) ==
  CASE x.t = "str" -> ReprString(x.v)
    [] x.t = "int" -> IntToText(x.v[1])
    [] x.t = "float" -> x.v
    [] x.t = "bool" -> IF x.v[1] THEN <<"T", "r", "u", "e">> ELSE <<"F", "a", "l", "s", "e">>
    [] x.t = "null" -> <<"N", "o", "n", "e">>
    [] x.t = "arr" -> <<"[">> \o ReprItems(x.v, FALSE) \o <<"]">>
    [] x.t = "obj" -> <<"{">> \o ReprItems(x.v, TRUE) \o <<"}">>

\* str(x)
PyStr(x) == IF x.t = "str" THEN x.v ELSE PyRepr(x)

OctalChars == {"0", "1", "2", "3", "4", "5", "6", "7"}

\* The value of the hex digits s[j..k].
RECURSIVE HexN(_, _, _)
HexN(s, j, k) == IF j > k THEN 0 ELSE HexN(s, j, k - 1) * 16 + HexVal(s[k])

RECURSIVE OctN(_, _, _)
OctN(s, j, k) == IF j > k THEN 0 ELSE OctN(s, j, k - 1) * 8 + DigitVal(s[k])

\* bytes.decode('unicode_escape'): [ok, v]; ok = FALSE stands for UnicodeDecodeError.
\* The text is copied up to its next backslash, and the escape there decoded.
RECURSIVE UnicodeEscapeFrom(_, _, _)
UnicodeEscapeFrom(s, from, acc0) ==
  LET i == FindFrom(s, from, <<BS>>)
      acc == IF i = 0 THEN acc0 \o From(s, from) ELSE acc0 \o SubSeq(s, from, i - 1)
  IN
  IF i = 0 THEN [ok |-> TRUE, v |-> acc]
  ELSE IF i = Len(s) THEN [ok |-> FALSE, v |-> acc]
  ELSE LET c == s[i + 1]
           hexRun(n) == i + 1 + n <= Len(s) /\ \A k \in (i + 2)..(i + 1 + n) : s[k] \in HexChars
           octEnd == LET e == SkipChars(s, i + 1, OctalChars)
                     IN  IF e > i + 4 THEN i + 4 ELSE e
       IN  CASE c = NL -> UnicodeEscapeFrom(s, i + 2, acc)
             [] c \in {BS, SQ, DQ} -> UnicodeEscapeFrom(s, i + 2, Append(acc, c))
             [] c = "a" -> UnicodeEscapeFrom(s, i + 2, Append(acc, BEL))
             [] c = "b" -> UnicodeEscapeFrom(s, i + 2, Append(acc, BSP))
             [] c = "f" -> UnicodeEscapeFrom(s, i + 2, Append(acc, FF))
             [] c = "n" -> UnicodeEscapeFrom(s, i + 2, Append(acc, NL))
             [] c = "r" -> UnicodeEscapeFrom(s, i + 2, Append(acc, CR))
             [] c = "t" -> UnicodeEscapeFrom(s, i + 2, Append(acc, TAB))
             [] c = "v" -> UnicodeEscapeFrom(s, i + 2, Append(acc, VT))
             [] c \in OctalChars ->
                  UnicodeEscapeFrom(s, octEnd, Append(acc, CodeToChar(OctN(s, i + 1, octEnd - 1))))
             [] c = "x" -> IF hexRun(2)
                           THEN UnicodeEscapeFrom(s, i + 4, Append(acc, CodeToChar(HexN(s, i + 2, i + 3))))
                           ELSE [ok |-> FALSE, v |-> acc]
             [] c = "u" -> IF hexRun(4)
                           THEN UnicodeEscapeFrom(s, i + 6, Append(acc, CodeToChar(HexN(s, i + 2, i + 5))))
                           ELSE [ok |-> FALSE, v |-> acc]
             [] c = "U" -> IF hexRun(8) /\ HexN(s, i + 2, i + 9) <= 1114111
                           THEN UnicodeEscapeFrom(s, i + 10, Append(acc, CodeToChar(HexN(s, i + 2, i + 9))))
                           ELSE [ok |-> FALSE, v |-> acc]
             [] c = "N" -> [ok |-> FALSE, v |-> acc]
             [] OTHER -> UnicodeEscapeFrom(s, i + 2, acc \o <<BS, c>>)

UnicodeEscape(s) == UnicodeEscapeFrom(s, 1, <<>>)

(* ----------------------------------------------------------------------- *)
(* FirebaseConfigTester._parse_config                                      *)
(* ----------------------------------------------------------------------- *)
\* The loop without .strip(): C9_DecodedThenCleaned does not hold of it.
RECURSIVE CleanItemsUntrimmed(_, _)
CleanItemsUntrimmed(items, cleaned) ==
  IF items = <<>> THEN cleaned
  ELSE CleanItemsUntrimmed(Tail(items),
                           IF Truthy(items[1][2])
                           THEN DictPut(cleaned, items[1][1], JStr(PyStr(items[1][2])))
                           ELSE cleaned)

\* The loop over json.loads(config_str).items(): a truthy value is kept as
\* str(value).strip(), any other is dropped.
RECURSIVE CleanItems(_, _)
CleanItems(items, cleaned) ==
  IF items = <<>> THEN cleaned
  ELSE CleanItems(Tail(items),
                  IF Truthy(items[1][2])
                  THEN DictPut(cleaned, items[1][1], JStr(Strip(PyStr(items[1][2]))))
                  ELSE cleaned)

\* _parse_config(config): [ok, v]; ok = FALSE stands for the exception that
\* leaves the constructor when the re-encoded text does not decode to a dict.
\* The loop over config_dict.items(), loaded being what json.loads returned.
Cleaned(loaded) ==
  IF loaded.ok /\ IsDict(loaded.v)
  THEN [ok |-> TRUE, v |-> JObj(CleanItems(loaded.v.v, <<>>))]
  ELSE [ok |-> FALSE, v |-> JNull]

\* json.loads(config_str), config_str being what the codec made of the dump.
Reloaded(config_str) ==
  Cleaned(IF config_str.ok THEN JsonLoads(config_str.v) ELSE [ok |-> FALSE, v |-> JNull])

ParseConfig(config) == Reloaded(UnicodeEscape(Dumps(config)))

(* ----------------------------------------------------------------------- *)
(* parse_firebase_config                                                   *)
(* ----------------------------------------------------------------------- *)
\* re.sub(r'//.*$', '', line) on one line: the line is cut at its first "//".
StripLineComment(line) ==
  LET k == FindFrom(line, 1, <<"/", "/">>)
  IN  IF k = 0 THEN line ELSE Upto(line, k - 1)

\* re.sub(r'/\*.*?\*/', '', line) on one line: each "/*" up to the nearest "*/"
\* after it is removed, left to right.
RECURSIVE StripBlockComments(_)
StripBlockComments(line) ==
  LET k == FindFrom(line, 1, <<"/", "*">>)
      e == IF k = 0 THEN 0 ELSE FindFrom(line, k + 2, <<"*", "/">>)
  IN  IF k = 0 \/ e = 0 THEN line
      ELSE Upto(line, k - 1) \o StripBlockComments(From(line, e + 2))

\* The comment removal loop over config_string.split('\n').
RemoveComments(text) ==
  LET lines == SplitOn(text, NL)
  IN  JoinWith([i \in 1..Len(lines) |-> StripBlockComments(StripLineComment(lines[i]))], NL)

\* The tail \s*(\w+)(\s*): of the key pattern, tried at q: the positions of the
\* word, of the whitespace after it and of the colon, or ok = FALSE.
KeyTail(s, q) ==
  LET w == SkipChars(s, q, PyWhitespace)
      we == SkipChars(s, w, WordChars)
      c == SkipChars(s, we, PyWhitespace)
  IN  [ok |-> we > w /\ c <= Len(s) /\ s[c] = ":", w |-> w, we |-> we, c |-> c]

\* Whether the key pattern (^|\s|[{,])\s*(\w+)(\s*): matches at position i.
KeyMatchAt(s, i) ==
  \/ (i = 1 \/ s[i - 1] = NL) /\ KeyTail(s, i).ok
  \/ s[i] \in PyWhitespace \cup {"{", ","} /\ KeyTail(s, i + 1).ok

\* re.sub(r'(^|\s|[{,])\s*(\w+)(\s*):', r'\1"\2"\3:', s, flags=re.MULTILINE),
\* from position from on: the text up to the next match is copied, the match
\* rewritten. The alternative ^ is tried first, so a match at a line start
\* keeps nothing before the key.
RECURSIVE QuoteKeysFrom(_, _)
QuoteKeysFrom(s, from) ==
  LET hits == {k \in from..Len(s) : KeyMatchAt(s, k)}
      i == Least(hits)
      atLineStart == i = 1 \/ s[i - 1] = NL
      t0 == KeyTail(s, i)
      byCaret == atLineStart /\ t0.ok
      t == IF byCaret THEN t0 ELSE KeyTail(s, i + 1)
      g1 == IF byCaret THEN <<>> ELSE <<s[i]>>
  IN  IF hits = {} THEN From(s, from)
      ELSE SubSeq(s, from, i - 1) \o g1 \o <<DQ>> \o SubSeq(s, t.w, t.we - 1) \o <<DQ>>
             \o SubSeq(s, t.we, t.c - 1) \o <<":">> \o QuoteKeysFrom(s, t.c + 1)

QuoteKeys(s) == QuoteKeysFrom(s, 1)

\* Where the value pattern :\s*'([^']*)' that starts at i ends (its closing
\* quote), or 0.
ValueMatchEnd(s, i) ==
  LET q == SkipChars(s, i + 1, PyWhitespace)
  IN  IF s[i] = ":" /\ q <= Len(s) /\ s[q] = SQ THEN FindFrom(s, q + 1, <<SQ>>) ELSE 0

\* re.sub(r":\s*'([^']*)'", r': "\1"', s), from position from on.
RECURSIVE DoubleQuoteValuesFrom(_, _)
DoubleQuoteValuesFrom(s, from) ==
  LET hits == {k \in from..Len(s) : ValueMatchEnd(s, k) # 0}
      i == Least(hits)
      q == SkipChars(s, i + 1, PyWhitespace)
      e == ValueMatchEnd(s, i)
  IN  IF hits = {} THEN From(s, from)
      ELSE SubSeq(s, from, i - 1) \o <<":", SP, DQ>> \o SubSeq(s, q + 1, e - 1) \o <<DQ>>
             \o DoubleQuoteValuesFrom(s, e + 1)

DoubleQuoteValues(s) == DoubleQuoteValuesFrom(s, 1)

\* Whether the pattern ,(\s*[}\]]) matches at position i.
TrailingCommaAt(s, i) ==
  LET q == SkipChars(s, i + 1, PyWhitespace)
  IN  s[i] = "," /\ q <= Len(s) /\ s[q] \in {"}", "]"}

\* re.sub(r',(\s*[}\]])', r'\1', s), from position from on.
RECURSIVE DropTrailingCommasFrom(_, _)
DropTrailingCommasFrom(s, from) ==
  LET hits == {k \in from..Len(s) : TrailingCommaAt(s, k)}
      i == Least(hits)
      q == SkipChars(s, i + 1, PyWhitespace)
  IN  IF hits = {} THEN From(s, from)
      ELSE SubSeq(s, from, i - 1) \o SubSeq(s, i + 1, q) \o DropTrailingCommasFrom(s, q + 1)

DropTrailingCommas(s) == DropTrailingCommasFrom(s, 1)

\* The text strategy 2 hands to json.loads: wrapped in braces when it does not
\* start with one, keys quoted, single-quoted values requoted, trailing commas
\* dropped.
NormalizeObjectLiteral(text) ==
  LET wrapped == IF StartsWith(Strip(text), <<"{">>) THEN text
                 ELSE <<"{">> \o text \o <<"}">>
  IN  DropTrailingCommas(DoubleQuoteValues(QuoteKeys(wrapped)))

\* The scan of one line for the first colon outside quotes: its position, or 0.
\* q is the open quote character, or "" outside quotes. The scan moves from one
\* quote character not preceded by a backslash, or colon, to the next.
RECURSIVE KeyEnd(_, _, _)
KeyEnd(line, from, q) ==
  LET marks == {k \in from..Len(line) :
                  \/ line[k] \in {DQ, SQ} /\ (k = 1 \/ line[k - 1] # BS)
                  \/ line[k] = ":" /\ q = ""}
      i == Least(marks)
  IN  IF marks = {} THEN 0
      ELSE IF line[i] \in {DQ, SQ} /\ (i = 1 \/ line[i - 1] # BS)
        THEN IF q = "" THEN KeyEnd(line, i + 1, line[i])
             ELSE IF line[i] = q THEN KeyEnd(line, i + 1, "")
             ELSE KeyEnd(line, i + 1, q)
      ELSE i

\* value_part.strip() with one pair of matching outer quotes removed.
FallbackValue(value_part) ==
  LET value == Strip(value_part)
  IN  IF \/ StartsWith(value, <<DQ>>) /\ EndsWith(value, <<DQ>>)
         \/ StartsWith(value, <<SQ>>) /\ EndsWith(value, <<SQ>>)
      THEN SubSeq(value, 2, Len(value) - 1)
      ELSE value

\* One pass of the fallback loop: config after the line raw has been handled.
FallbackLine(config, raw) ==
  LET stripped == Strip(raw)
      line == RStripChars(stripped, {","})
      key_end == KeyEnd(line, 1, "")
      key == StripChars(Strip(Upto(line, key_end - 1)), {SQ, DQ})
  IN  IF \/ stripped = <<>>
         \/ StartsWith(stripped, <<"#">>)
         \/ StartsWith(stripped, <<"/", "/">>)
         \/ stripped \in {<<"{">>, <<"}">>, <<",">>}
         \/ key_end = 0
         \/ key = <<>>
      THEN config
      ELSE DictPut(config, key, JStr(FallbackValue(From(line, key_end + 1))))

RECURSIVE FallbackLines(_, _)
FallbackLines(lines, config) ==
  IF lines = <<>> THEN config
  ELSE FallbackLines(Tail(lines), FallbackLine(config, Head(lines)))

\* The line-by-line fallback over the text strategy 2 left behind.
Fallback(text) == JObj(FallbackLines(SplitOn(text, NL), <<>>))

\* parse_firebase_config(config_string): [ok, v, via]. ok = FALSE stands for
\* the ValueError naming the supported formats; via is the strategy (1 direct
\* JSON, 2 object literal, 3 line by line) that returned, 0 for the error.
\* Strategy 3: `if config: return config`, else the ValueError.
Strategy3(config) ==
  IF config.v # <<>> THEN [ok |-> TRUE, v |-> config, via |-> 3]
  ELSE [ok |-> FALSE, v |-> JNull, via |-> 0]

\* Strategy 2, literal being what json.loads made of the normalized text.
Strategy2(literal, normalized) ==
  IF literal.ok THEN [ok |-> TRUE, v |-> literal.v, via |-> 2]
  ELSE Strategy3(Fallback(normalized))

\* The text that strategies 2 and 3 work on.
Normalized(stripped) == NormalizeObjectLiteral(RemoveComments(stripped))

\* Strategy 1, direct being what json.loads made of the stripped text.
Strategy1(direct, stripped) ==
  IF direct.ok THEN [ok |-> TRUE, v |-> direct.v, via |-> 1]
  ELSE Strategy2(JsonLoads(Normalized(stripped)), Normalized(stripped))

ParseStripped(stripped) == Strategy1(JsonLoads(stripped), stripped)

ParseFirebaseConfig(config_string) == ParseStripped(Strip(config_string))

(* ----------------------------------------------------------------------- *)
(* Names and catalogs of the program                                       *)
(* ----------------------------------------------------------------------- *)
\* The configuration keys the probes and the flags name.
apiKey == <<"a", "p", "i", "K", "e", "y">>
authDomain == <<"a", "u", "t", "h", "D", "o", "m", "a", "i", "n">>
databaseURL == <<"d", "a", "t", "a", "b", "a", "s", "e", "U", "R", "L">>
projectId == <<"p", "r", "o", "j", "e", "c", "t", "I", "d">>
storageBucket == <<"s", "t", "o", "r", "a", "g", "e", "B", "u", "c", "k", "e", "t">>
messagingSenderId ==
  <<"m", "e", "s", "s", "a", "g", "i", "n", "g", "S", "e", "n", "d", "e", "r", "I", "d">>
appId == <<"a", "p", "p", "I", "d">>
measurementId == <<"m", "e", "a", "s", "u", "r", "e", "m", "e", "n", "t", "I", "d">>

\* The keys of response bodies the probes read.
idToken == <<"i", "d", "T", "o", "k", "e", "n">>
entries == <<"e", "n", "t", "r", "i", "e", "s">>
state == <<"s", "t", "a", "t", "e">>
documents == <<"d", "o", "c", "u", "m", "e", "n", "t", "s">>
NO_TEMPLATE == <<"N", "O", "_", "T", "E", "M", "P", "L", "A", "T", "E">>

\* The auth_type labels and the header schemes.
anonymous == <<"a", "n", "o", "n", "y", "m", "o", "u", "s">>
authenticatedBearer ==
  <<"a", "u", "t", "h", "e", "n", "t", "i", "c", "a", "t", "e", "d", " ", "(", "B",
    "e", "a", "r", "e", "r", ")">>
authenticatedFirebase ==
  <<"a", "u", "t", "h", "e", "n", "t", "i", "c", "a", "t", "e", "d", " ", "(", "F",
    "i", "r", "e", "b", "a", "s", "e", ")">>
Bearer == <<"B", "e", "a", "r", "e", "r">>
BearerScheme == <<"B", "e", "a", "r", "e", "r", " ">>
FirebaseScheme == <<"F", "i", "r", "e", "b", "a", "s", "e", " ">>
unknown == <<"u", "n", "k", "n", "o", "w", "n">>

\* The pieces of the result file names.
StorageListingPrefix ==
  <<"s", "t", "o", "r", "a", "g", "e", "-", "l", "i", "s", "t", "i", "n", "g", "-">>
DatabasePrefix == <<"d", "a", "t", "a", "b", "a", "s", "e", "-">>
FirestorePrefix == <<"f", "i", "r", "e", "s", "t", "o", "r", "e", "-">>
DotJson == <<".", "j", "s", "o", "n">>
RemoteConfigFile ==
  <<"r", "e", "m", "o", "t", "e", "c", "o", "n", "f", "i", "g", ".", "j", "s", "o", "n">>

\* The endpoints list of check_database_accessibility.
AllEndpoints ==
  <<<<"/", ".", "j", "s", "o", "n">>,
    <<"/", "U", "s", "e", "r", "s", ".", "j", "s", "o", "n">>,
    <<"/", "u", "s", "e", "r", "s", ".", "j", "s", "o", "n">>,
    <<"/", "L", "o", "g", "s", ".", "j", "s", "o", "n">>,
    <<"/", "l", "o", "g", "s", ".", "j", "s", "o", "n">>,
    <<"/", "M", "e", "s", "s", "a", "g", "e", "s", ".", "j", "s", "o", "n">>,
    <<"/", "m", "e", "s", "s", "a", "g", "e", "s", ".", "j", "s", "o", "n">>,
    <<"/", "P", "o", "s", "t", "s", ".", "j", "s", "o", "n">>,
    <<"/", "p", "o", "s", "t", "s", ".", "j", "s", "o", "n">>,
    <<"/", "C", "o", "m", "m", "e", "n", "t", "s", ".", "j", "s", "o", "n">>,
    <<"/", "c", "o", "m", "m", "e", "n", "t", "s", ".", "j", "s", "o", "n">>,
    <<"/", "P", "r", "o", "f", "i", "l", "e", "s", ".", "j", "s", "o", "n">>,
    <<"/", "p", "r", "o", "f", "i", "l", "e", "s", ".", "j", "s", "o", "n">>,
    <<"/", "S", "e", "t", "t", "i", "n", "g", "s", ".", "j", "s", "o", "n">>,
    <<"/", "s", "e", "t", "t", "i", "n", "g", "s", ".", "j", "s", "o", "n">>,
    <<"/", "C", "o", "n", "f", "i", "g", ".", "j", "s", "o", "n">>,
    <<"/", "c", "o", "n", "f", "i", "g", ".", "j", "s", "o", "n">>>>

\* The collections list of check_firestore_collections.
AllCollections ==
  <<<<"u", "s", "e", "r", "s">>,
    <<"U", "s", "e", "r", "s">>,
    <<"l", "o", "g">>,
    <<"L", "o", "g">>,
    <<"l", "o", "g", "s">>,
    <<"L", "o", "g", "s">>,
    <<"u", "p", "l", "o", "a", "d">>,
    <<"U", "p", "l", "o", "a", "d">>,
    <<"u", "p", "l", "o", "a", "d", "s">>,
    <<"U", "p", "l", "o", "a", "d", "s">>,
    <<"i", "m", "a", "g", "e", "s">>,
    <<"I", "m", "a", "g", "e", "s">>,
    <<"f", "i", "l", "e", "s">>,
    <<"F", "i", "l", "e", "s">>,
    <<"s", "e", "t", "t", "i", "n", "g", "s">>,
    <<"S", "e", "t", "t", "i", "n", "g", "s">>,
    <<"m", "e", "s", "s", "a", "g", "e", "s">>,
    <<"M", "e", "s", "s", "a", "g", "e", "s">>,
    <<"c", "o", "n", "f", "i", "g">>,
    <<"C", "o", "n", "f", "i", "g">>>>


\* The bounds of the model: how many entries of each catalog a sweep visits.
MaxEndpoints == 2
MaxCollections == 2

endpoints == SubSeq(AllEndpoints, 1, MaxEndpoints)
collections == SubSeq(AllCollections, 1, MaxCollections)

\* s.replace(old, new) for a non-empty old.
RECURSIVE Replace(_, _, _)
Replace(s, old, new) ==
  LET i == FindFrom(s, 1, old)
  IN  IF i = 0 \/ i > Len(s) THEN s
      ELSE Upto(s, i - 1) \o new \o Replace(From(s, i + Len(old)), old, new)

\* auth_type.replace(' ', '-').replace('(', '').replace(')', '')
LabelInName(auth_type) ==
  Replace(Replace(Replace(auth_type, <<SP>>, <<"-">>), <<"(">>, <<>>), <<")">>, <<>>)

StorageListingName(auth_type) == StorageListingPrefix \o LabelInName(auth_type) \o DotJson

DatabaseFileName(endpoint, auth_type) ==
  DatabasePrefix \o Replace(Replace(endpoint, <<"/">>, <<>>), DotJson, <<>>)
    \o <<"-">> \o LabelInName(auth_type) \o DotJson

FirestoreFileName(collection, auth_type) ==
  FirestorePrefix \o collection \o <<"-">> \o LabelInName(auth_type) \o DotJson

(* ----------------------------------------------------------------------- *)
(* The command line                                                        *)
(* ----------------------------------------------------------------------- *)
\* An argparse value: not given (None) or the text given.
NoArg == [given |-> FALSE, v |-> <<>>]
Given(s) == [given |-> TRUE, v |-> s]
\* if args.x: a value that was given and is not empty.
ArgTruthy(a) == a.given /\ a.v # <<>>

\* The keys the individual flags set, in the order main applies them.
FlagKeys ==
  <<apiKey, authDomain, databaseURL, projectId, storageBucket, messagingSenderId,
    appId, measurementId>>

\* Strict JSON with the eight keys.
TextFull ==
  <<"{", "\"", "a", "p", "i", "K", "e", "y", "\"", ":", "\"", "A", "I", "z", "a", "1",
    "\"", ",", "\"", "a", "u", "t", "h", "D", "o", "m", "a", "i", "n", "\"", ":", "\"",
    "p", ".", "f", "i", "r", "e", "b", "a", "s", "e", "a", "p", "p", ".", "c", "o",
    "m", "\"", ",", "\"", "d", "a", "t", "a", "b", "a", "s", "e", "U", "R", "L", "\"",
    ":", "\"", "h", "t", "t", "p", "s", ":", "/", "/", "p", ".", "f", "i", "r", "e",
    "b", "a", "s", "e", "i", "o", ".", "c", "o", "m", "\"", ",", "\"", "p", "r", "o",
    "j", "e", "c", "t", "I", "d", "\"", ":", "\"", "p", "\"", ",", "\"", "s", "t", "o",
    "r", "a", "g", "e", "B", "u", "c", "k", "e", "t", "\"", ":", "\"", "p", ".", "a",
    "p", "p", "s", "p", "o", "t", ".", "c", "o", "m", "\"", ",", "\"", "m", "e", "s",
    "s", "a", "g", "i", "n", "g", "S", "e", "n", "d", "e", "r", "I", "d", "\"", ":",
    "\"", "4", "2", "\"", ",", "\"", "a", "p", "p", "I", "d", "\"", ":", "\"", "1",
    ":", "4", "2", ":", "w", "e", "b", ":", "a", "\"", ",", "\"", "m", "e", "a", "s",
    "u", "r", "e", "m", "e", "n", "t", "I", "d", "\"", ":", "\"", "G", "-", "1", "\"",
    "}">>

\* Strict JSON without apiKey.
TextNoApiKey ==
  <<"{", "\"", "d", "a", "t", "a", "b", "a", "s", "e", "U", "R", "L", "\"", ":", "\"",
    "h", "t", "t", "p", "s", ":", "/", "/", "p", ".", "f", "i", "r", "e", "b", "a",
    "s", "e", "i", "o", ".", "c", "o", "m", "\"", ",", "\"", "p", "r", "o", "j", "e",
    "c", "t", "I", "d", "\"", ":", "\"", "p", "\"", ",", "\"", "s", "t", "o", "r", "a",
    "g", "e", "B", "u", "c", "k", "e", "t", "\"", ":", "\"", "p", ".", "a", "p", "p",
    "s", "p", "o", "t", ".", "c", "o", "m", "\"", ",", "\"", "m", "e", "s", "s", "a",
    "g", "i", "n", "g", "S", "e", "n", "d", "e", "r", "I", "d", "\"", ":", "\"", "4",
    "2", "\"", ",", "\"", "a", "p", "p", "I", "d", "\"", ":", "\"", "1", ":", "4", "2",
    ":", "w", "e", "b", ":", "a", "\"", "}">>

\* An object literal with unquoted keys and mixed quotes.
TextLiteral ==
  <<"{", "a", "p", "i", "K", "e", "y", ":", "\"", "X", "\"", ",", "a", "u", "t", "h",
    "D", "o", "m", "a", "i", "n", ":", "'", "Y", "'", "}">>

\* A multiline object literal with a comment and a trailing comma.
TextMultiline ==
  <<"{", "\n", " ", " ", "/", "/", " ", "w", "e", "b", " ", "a", "p", "p", "\n", " ",
    " ", "a", "p", "i", "K", "e", "y", ":", " ", "\"", "X", "\"", ",", "\n", " ", " ",
    "p", "r", "o", "j", "e", "c", "t", "I", "d", ":", " ", "'", "p", "'", ",", "\n", "}">>

\* Ad hoc lines that only the fallback reads.
TextLines ==
  <<"a", "p", "i", "K", "e", "y", ":", " ", "X", "\n", "a", "p", "p", "I", "d", " ",
    "=", " ", "1">>

\* The empty JSON object.
TextEmptyObject == <<"{", "}">>

\* Text that is only whitespace.
TextBlank == <<" ">>

\* Valid JSON that is no object.
TextList == <<"[", "1", "]">>

\* Text no strategy reads.
TextWord == <<"f", "i", "r", "e", "b", "a", "s", "e">>

\* A value of whitespace only, and an empty value.
TextBlankValue ==
  <<"{", "\"", "a", "p", "i", "K", "e", "y", "\"", ":", "\"", " ", "\"", ",", "\"",
    "a", "p", "p", "I", "d", "\"", ":", "\"", "\"", "}">>

\* A value that holds a double quote.
TextQuoteValue ==
  <<"{", "\"", "a", "p", "i", "K", "e", "y", "\"", ":", "\"", "a", "\\", "\"", "b",
    "\"", "}">>

\* A padded value, and a value holding a backslash-u escape.
TextPadded ==
  <<"{", "\"", "a", "p", "i", "K", "e", "y", "\"", ":", "\"", " ", "A", "I", "z", "a",
    "1", " ", "\"", ",", "\"", "s", "t", "o", "r", "a", "g", "e", "B", "u", "c", "k",
    "e", "t", "\"", ":", "\"", "b", "\\", "\\", "u", "0", "0", "4", "1", "\"", "}">>

ValAIza1 == <<"A", "I", "z", "a", "1">>

ValDatabaseUrl ==
  <<"h", "t", "t", "p", "s", ":", "/", "/", "p", "r", "o", "j", ".", "f", "i", "r",
    "e", "b", "a", "s", "e", "i", "o", ".", "c", "o", "m">>

ValBucket == <<"b", ".", "a", "p", "p", "s", "p", "o", "t", ".", "c", "o", "m">>

ValProject == <<"p", "r", "o", "j">>

ValSender == <<"4", "2">>

ValApp == <<"1", ":", "4", "2", ":", "w", "e", "b", ":", "a">>

ValQuote == <<"a", "\"", "b">>

ValBlank == <<" ">>

NoFlags == [i \in 1..8 |-> NoArg]
\* --api-key and --database-url, the end-to-end scenario of the tool's usage text.
FlagsKeyAndDatabase == [NoFlags EXCEPT ![1] = Given(ValAIza1), ![3] = Given(ValDatabaseUrl)]
FlagsBucket == [NoFlags EXCEPT ![5] = Given(ValBucket)]
FlagsProject == [NoFlags EXCEPT ![4] = Given(ValProject)]
FlagsRemoteConfig ==
  [NoFlags EXCEPT ![1] = Given(ValAIza1), ![6] = Given(ValSender), ![7] = Given(ValApp)]
FlagsCrashlytics == [NoFlags EXCEPT ![1] = Given(ValAIza1), ![7] = Given(ValApp)]
FlagsQuoteKey == [NoFlags EXCEPT ![1] = Given(ValQuote)]
FlagsBlankKey == [NoFlags EXCEPT ![1] = Given(ValBlank), ![4] = Given(<<>>)]

ConfigTexts ==
  {TextFull, TextNoApiKey, TextLiteral, TextMultiline, TextLines, TextEmptyObject,
   TextBlank, TextList, TextWord, TextBlankValue, TextQuoteValue, TextPadded}

FlagSets ==
  {NoFlags, FlagsKeyAndDatabase, FlagsBucket, FlagsProject, FlagsRemoteConfig,
   FlagsCrashlytics, FlagsQuoteKey, FlagsBlankKey}

CommandLine(c, f, d) == [firebase_config |-> c, flags |-> f, debug |-> d]

\* The command lines of the model: every text alone, every flag set alone,
\* flag sets over texts that they override, extend or cannot be applied to, and
\* two command lines with --debug.
CommandLines ==
  {CommandLine(c, NoFlags, FALSE) : c \in {NoArg} \cup {Given(t) : t \in ConfigTexts \cup {<<>>}}}
  \cup {CommandLine(NoArg, f, FALSE) : f \in FlagSets}
  \cup {CommandLine(Given(t), f, FALSE) :
          t \in {TextNoApiKey, TextList, TextEmptyObject, TextBlank},
          f \in {FlagsKeyAndDatabase, FlagsBucket}}
  \cup {CommandLine(Given(TextFull), NoFlags, TRUE),
        CommandLine(NoArg, FlagsKeyAndDatabase, TRUE)}

(* ----------------------------------------------------------------------- *)
(* Requests and responses                                                  *)
(* ----------------------------------------------------------------------- *)
ApplicationJson ==
  <<"a", "p", "p", "l", "i", "c", "a", "t", "i", "o", "n", "/", "j", "s", "o", "n">>

\* Headers are a sequence of <<name, value text>>; {} is the empty sequence.
HasHeader(headers, name) == \E i \in 1..Len(headers) : headers[i][1] = name
\* headers.get(name, "")
HeaderGet(headers, name) ==
  IF HasHeader(headers, name)
  THEN headers[CHOOSE i \in 1..Len(headers) : headers[i][1] = name][2]
  ELSE <<>>

\* A request: the method, the endpoint (its URL template, the configuration
\* value formatted into it and the path or name appended), the headers and the
\* timeout in seconds (0: none given).
Request(method, api, arg, path, headers, timeout) ==
  [method |-> method, api |-> api, arg |-> arg, path |-> path, headers |-> headers,
   timeout |-> timeout]

\* The scheme a request is sent under, read from its Authorization header.
SchemeOf(headers) ==
  IF ~HasHeader(headers, "Authorization") THEN "anonymous"
  ELSE IF StartsWith(HeaderGet(headers, "Authorization"), BearerScheme) THEN "Bearer"
  ELSE "Firebase"

\* A response body: whether response.json() decodes it, and to what.
NoBody == [ok |-> FALSE, v |-> JNull]
BodyOf(x) == [ok |-> TRUE, v |-> x]

\* The identity tokens a sign-up response may carry: the empty string, a
\* token, and a token in which the word Bearer occurs.
Tokens == {<<>>, <<"t", "o", "k">>, <<"e", "y", "B", "e", "a", "r", "e", "r">>}

Bodies ==
  {NoBody} \cup
  {BodyOf(x) : x \in
     {JNull, EmptyDict, JArr(<<JInt(1)>>), JObj(<<<<documents, JArr(<<JInt(1)>>)>>>>),
      JObj(<<<<entries, EmptyDict>>>>), JObj(<<<<state, JStr(NO_TEMPLATE)>>>>)}
     \cup {JObj(<<<<idToken, JStr(t)>>>>) : t \in Tokens}}

\* What one request may come back with: a response with a status and a body
\* (the code reads the body under status 200 only), a timeout, or another
\* requests exception.
Responses ==
  {[kind |-> "http", status |-> 200, body |-> b] : b \in Bodies}
  \cup {[kind |-> "http", status |-> st, body |-> NoBody] : st \in {400, 401, 403, 404, 500}}
  \cup {[kind |-> "http", status |-> 400,
          body |-> BodyOf(JObj(<<<<idToken, JStr(<<"t", "o", "k">>)>>>>))]}
  \cup {[kind |-> k, status |-> 0, body |-> NoBody] : k \in {"timeout", "error"}}

\* key in x, for a decoded x: [ok, v]; ok = FALSE stands for the TypeError of a
\* value that is no container.
PyIn(key, x) ==
  CASE x.t = "obj" -> [ok |-> TRUE, v |-> HasKey(x, key)]
    [] x.t = "arr" -> [ok |-> TRUE, v |-> \E i \in 1..Len(x.v) : x.v[i] = JStr(key)]
    [] x.t = "str" -> [ok |-> TRUE, v |-> Contains(x.v, key)]
    [] OTHER -> [ok |-> FALSE, v |-> FALSE]

(* ----------------------------------------------------------------------- *)
(* State                                                                   *)
(* ----------------------------------------------------------------------- *)
VARIABLES
  args,          \* the parsed command line
  pc,            \* the statement main or run_all_checks is at
  config,        \* main's config
  via,           \* the strategy of parse_firebase_config that returned (0: none)
  self_config,   \* self.config of the tester
  id_token,      \* self.id_token
  random_string, \* self.random_string
  ctx,           \* the loop index in headers_list of the running probe
  idx,           \* the loop index in endpoints or collections
  accessible,    \* accessible_endpoints / accessible_collections of the sweep
  exit_code,     \* the exit status of the process, -1 while it runs
  invoked,       \* the probes run_all_checks has called, in order
  attempted,     \* <<probe, scheme>> for every request sent so far
  networked,     \* whether any HTTP request has been issued
  sent,          \* the requests the running probe has issued
  written,       \* the files the running probe has written
  last_req,      \* the request of the last step, if it issued one
  last_resp,     \* what that request came back with
  printed,       \* the status lines the last step printed
  debugged       \* the requests the last step printed through _print_debug

vars ==
  <<args, pc, config, via, self_config, id_token, random_string, ctx, idx, accessible,
    exit_code, invoked, attempted, networked, sent, written, last_req, last_resp, printed,
    debugged>>


\* The state before main has done anything, for the command line a.
Start(a) ==
  /\ args = a
  /\ pc = "main"
  /\ config = EmptyDict
  /\ via = 0
  /\ self_config = EmptyDict
  /\ id_token = JNull
  /\ random_string = <<>>
  /\ ctx = 0
  /\ idx = 0
  /\ accessible = <<>>
  /\ exit_code = -1
  /\ invoked = <<>>
  /\ attempted = {}
  /\ networked = FALSE
  /\ sent = <<>>
  /\ written = <<>>
  /\ last_req = <<>>
  /\ last_resp = <<>>
  /\ printed = <<>>
  /\ debugged = <<>>

Init == \E a \in CommandLines : Start(a)

(* ----------------------------------------------------------------------- *)
(* main                                                                    *)
(* ----------------------------------------------------------------------- *)
\* The process ends with status code, having printed line.
Exit(code, line) ==
  /\ pc' = "exit"
  /\ exit_code' = code
  /\ printed' = <<line>>

\* if args.firebase_config: config = parse_firebase_config(...), and
\* sys.exit(1) on any exception of it.
\* The try block of main, r being what parse_firebase_config did.
MainParsed(r) ==
  IF r.ok
  THEN /\ config' = r.v
       /\ via' = r.via
       /\ pc' = "override"
       /\ printed' = <<"Parsing Firebase configuration...">>
       /\ UNCHANGED exit_code
  ELSE /\ pc' = "exit"
       /\ exit_code' = 1
       /\ printed' = <<"Parsing Firebase configuration...", "Error parsing Firebase config">>
       /\ UNCHANGED <<config, via>>

MainParse ==
  /\ pc = "main"
  /\ IF ArgTruthy(args.firebase_config)
     THEN MainParsed(ParseFirebaseConfig(args.firebase_config.v))
     ELSE /\ pc' = "override"
          /\ UNCHANGED <<config, via, exit_code, printed>>
  /\ UNCHANGED <<args, self_config, id_token, random_string, ctx, idx, accessible,
                 invoked, attempted, networked, sent, written, last_req, last_resp,
                 debugged>>

\* The overrides main applies for the flags i..8, in order.
RECURSIVE ApplyFlags(_, _, _)
ApplyFlags(pairs, flags, i) ==
  IF i > Len(FlagKeys) THEN pairs
  ELSE ApplyFlags(IF ArgTruthy(flags[i]) THEN DictPut(pairs, FlagKeys[i], JStr(flags[i].v))
                  ELSE pairs,
                  flags, i + 1)

\* The "Override with individual arguments" block and the "if not config" test.
\* An item assignment to a config that is no dict raises TypeError, which
\* nothing catches: the interpreter ends with status 1.
MainOverride ==
  /\ pc = "override"
  /\ LET anyFlag == \E i \in 1..Len(FlagKeys) : ArgTruthy(args.flags[i])
         overridden == IF IsDict(config) THEN JObj(ApplyFlags(config.v, args.flags, 1))
                       ELSE config
     IN  IF anyFlag /\ ~IsDict(config)
         THEN Exit(1, "TypeError") /\ UNCHANGED config
         ELSE IF ~Truthy(overridden)
         THEN Exit(1, "No Firebase configuration provided!") /\ config' = overridden
         ELSE /\ config' = overridden
              /\ pc' = "construct"
              /\ printed' = <<>>
              /\ UNCHANGED exit_code
  /\ UNCHANGED <<args, via, self_config, id_token, random_string, ctx, idx, accessible,
                 invoked, attempted, networked, sent, written, last_req, last_resp,
                 debugged>>

\* The order with the registration probe called third: C5_FixedOrder does not
\* hold of it.
RunOrderRegistrationThird ==
  <<"check_storage_bucket", "check_storage_upload", "check_registration",
    "check_database_url", "check_database_accessibility", "check_remote_config",
    "check_firestore_collections", "check_crashlytics">>

\* The probes in the order run_all_checks calls them.
RunOrder ==
  <<"check_registration", "check_storage_bucket", "check_storage_upload",
    "check_database_url", "check_database_accessibility", "check_remote_config",
    "check_firestore_collections", "check_crashlytics">>

\* Where control goes when probe p returns.
AfterProbe(p) ==
  LET k == CHOOSE i \in 1..Len(RunOrder) : RunOrder[i] = p
  IN  IF k < Len(RunOrder) THEN RunOrder[k + 1] ELSE "all_checks_completed"

\* The values random.choices may give self.random_string.
RandomStrings == {<<"r", "4", "n", "D", "0", "m", "A", "b">>}

\* FirebaseConfigTester(config, debug): __init__ cleans the config and clears
\* id_token; an exception of _parse_config leaves main uncaught, status 1.
\* run_all_checks then prints its heading and calls the first probe.
Constructed(r) ==
  IF r.ok
  THEN /\ self_config' = r.v
       /\ id_token' = JNull
       /\ random_string' \in RandomStrings
       /\ pc' = RunOrder[1]
       /\ printed' = <<"Starting Firebase configuration security tests...">>
       /\ UNCHANGED exit_code
  ELSE /\ Exit(1, "Traceback")
       /\ UNCHANGED <<self_config, id_token, random_string>>

Construct ==
  /\ pc = "construct"
  /\ Constructed(ParseConfig(config))
  /\ UNCHANGED <<args, config, via, ctx, idx, accessible, invoked, attempted, networked,
                 sent, written, last_req, last_resp, debugged>>

\* print("All checks completed!"); main returns and the process ends, status 0.
RunAllChecksReturn ==
  /\ pc = "all_checks_completed"
  /\ Exit(0, "All checks completed!")
  /\ last_req' = <<>>
  /\ last_resp' = <<>>
  /\ debugged' = <<>>
  /\ UNCHANGED <<args, config, via, self_config, id_token, random_string, ctx, idx,
                 accessible, invoked, attempted, networked, sent, written>>


(* ----------------------------------------------------------------------- *)
(* What every probe shares                                                 *)
(* ----------------------------------------------------------------------- *)
\* headers_list without the Firebase scheme: C2_Contexts does not hold of it.
HeadersListBearerOnly(base) ==
  <<base>> \o
  (IF Truthy(id_token)
   THEN <<<<<<"Authorization", BearerScheme \o PyStr(id_token)>>>> \o base>>
   ELSE <<>>)

\* headers_list: base alone, then base with a Bearer and with a Firebase
\* Authorization header when self.id_token is truthy.
HeadersList(base) ==
  <<base>> \o
  (IF Truthy(id_token)
   THEN <<<<<<"Authorization", BearerScheme \o PyStr(id_token)>>>> \o base,
          <<<<"Authorization", FirebaseScheme \o PyStr(id_token)>>>> \o base>>
   ELSE <<>>)

\* auth_type, from `if not headers`.
AuthType(headers) ==
  IF headers = <<>> THEN anonymous
  ELSE IF Contains(HeaderGet(headers, "Authorization"), Bearer) THEN authenticatedBearer
  ELSE authenticatedFirebase

\* auth_type, from `if "Authorization" not in headers`.
UploadAuthType(headers) ==
  IF ~HasHeader(headers, "Authorization") THEN anonymous
  ELSE IF Contains(HeaderGet(headers, "Authorization"), Bearer) THEN authenticatedBearer
  ELSE authenticatedFirebase

\* The keys whose absence makes a probe return at once.
Requires(p) ==
  CASE p = "check_registration" -> {apiKey}
    [] p = "check_storage_bucket" -> {storageBucket}
    [] p = "check_storage_upload" -> {storageBucket}
    [] p = "check_database_url" -> {databaseURL}
    [] p = "check_database_accessibility" -> {databaseURL}
    [] p = "check_remote_config" -> {apiKey, messagingSenderId, appId}
    [] p = "check_firestore_collections" -> {projectId}
    [] p = "check_crashlytics" -> {appId, apiKey}

Precondition(p) == \A k \in Requires(p) : HasKey(self_config, k)

\* self.config[key]
Conf(key) == Get(self_config, key).v

\* self._print_debug(message, curl_cmd) for the request r.
Debug(r) == IF args.debug THEN <<r>> ELSE <<>>

\* What main and the constructor set, which no probe touches.
Untouched == UNCHANGED <<args, config, via, self_config, random_string, exit_code>>

\* A step that issues no request.
Quiet ==
  /\ last_req' = <<>>
  /\ last_resp' = <<>>
  /\ debugged' = <<>>
  /\ UNCHANGED <<attempted, networked>>

\* A step of probe p that issues the request r and gets resp.
Issue(p, r, resp) ==
  /\ last_req' = <<r>>
  /\ last_resp' = <<resp>>
  /\ networked' = TRUE
  /\ attempted' = attempted \cup {<<p, SchemeOf(r.headers)>>}

\* A skip that also forgets the credential: C3_SkipIsInert does not hold of it.
SkipForgetting(p, line) ==
  /\ ~Precondition(p)
  /\ invoked' = Append(invoked, p)
  /\ sent' = <<>>
  /\ written' = <<>>
  /\ printed' = <<line>>
  /\ Quiet
  /\ pc' = AfterProbe(p)
  /\ id_token' = JNull
  /\ UNCHANGED <<ctx, idx, accessible>>
  /\ Untouched

\* Probe p is called and returns at once, a key it requires being absent.
Skip(p, line) ==
  /\ ~Precondition(p)
  /\ invoked' = Append(invoked, p)
  /\ sent' = <<>>
  /\ written' = <<>>
  /\ printed' = <<line>>
  /\ Quiet
  /\ pc' = AfterProbe(p)
  /\ UNCHANGED <<id_token, ctx, idx, accessible>>
  /\ Untouched

\* Probe p is called and starts the first pass of its loop over headers_list.
Enter(p, line, first, i) ==
  /\ Precondition(p)
  /\ invoked' = Append(invoked, p)
  /\ sent' = <<>>
  /\ written' = <<>>
  /\ printed' = <<line>>
  /\ Quiet
  /\ pc' = first
  /\ ctx' = 1
  /\ idx' = i
  /\ accessible' = <<>>
  /\ UNCHANGED id_token
  /\ Untouched

\* The end of one pass of `for headers in headers_list` of probe p: the next
\* pass starts at first, or the probe returns.
NextPass(p, first, hl) ==
  IF ctx < Len(hl) THEN pc' = first /\ ctx' = ctx + 1
  ELSE pc' = AfterProbe(p) /\ ctx' = 0

Is200(resp) == resp.kind = "http" /\ resp.status = 200

(* ----------------------------------------------------------------------- *)
(* check_registration                                                      *)
(* ----------------------------------------------------------------------- *)
\* The assignment without the test of the status: C1_CredentialOneWay does not
\* hold of it.
RegistrationTokenAnyStatus(resp) ==
  IF resp.kind = "http" /\ resp.body.ok /\ IsDict(resp.body.v)
  THEN IF HasKey(resp.body.v, idToken) THEN Get(resp.body.v, idToken) ELSE JNull
  ELSE id_token

\* self.id_token after the sign-up request came back with resp: assigned
\* result.get('idToken') when the status is 200 and the body decodes to a dict.
RegistrationToken(resp) ==
  IF Is200(resp) /\ resp.body.ok /\ IsDict(resp.body.v)
  THEN IF HasKey(resp.body.v, idToken) THEN Get(resp.body.v, idToken) ELSE JNull
  ELSE id_token

RegistrationLines(resp) ==
  IF resp.kind # "http" THEN <<"Registration check error">>
  ELSE IF resp.status = 200
    THEN IF resp.body.ok /\ IsDict(resp.body.v) THEN <<"Registration successful">>
         ELSE <<"Registration successful", "Registration check error">>
  ELSE IF resp.status = 400 THEN <<"Registration not allowed">>
  ELSE <<"Registration check failed">>

check_registration ==
  /\ pc = "check_registration"
  /\ \/ Skip("check_registration", "No apiKey provided, skipping registration check")
     \/ /\ Precondition("check_registration")
        /\ LET headers == <<<<"Content-Type", ApplicationJson>>>>
               r == Request("POST", "identitytoolkit/accounts:signUp", <<Conf(apiKey)>>,
                            <<>>, headers, 0)
           IN  \E resp \in Responses :
                 /\ Issue("check_registration", r, resp)
                 /\ sent' = <<r>>
                 /\ debugged' = Debug(r)
                 /\ printed' = RegistrationLines(resp)
                 /\ id_token' = RegistrationToken(resp)
        /\ invoked' = Append(invoked, "check_registration")
        /\ written' = <<>>
        /\ pc' = AfterProbe("check_registration")
        /\ UNCHANGED <<ctx, idx, accessible>>
        /\ Untouched

(* ----------------------------------------------------------------------- *)
(* check_storage_bucket                                                    *)
(* ----------------------------------------------------------------------- *)
check_storage_bucket ==
  /\ pc = "check_storage_bucket"
  /\ \/ Skip("check_storage_bucket", "No storageBucket provided, skipping check")
     \/ Enter("check_storage_bucket", "Checking storage bucket", "storage_bucket_firebase", 0)

StorageListingLines(resp, fs_ok) ==
  IF resp.kind # "http" THEN <<"Storage bucket check error">>
  ELSE IF resp.status = 200
    THEN <<"Storage bucket accessible", "URL">>
           \o (IF resp.body.ok /\ fs_ok THEN <<"Listing saved">>
               ELSE <<"Could not save listing">>)
  ELSE IF resp.status = 404 THEN <<"Storage bucket not found">>
  ELSE <<"Storage bucket check failed">>

\* The request to the Firebase Storage API of one pass.
storage_bucket_firebase ==
  /\ pc = "storage_bucket_firebase"
  /\ LET headers == HeadersList(<<>>)[ctx]
         auth_type == AuthType(headers)
         r == Request("GET", "firebasestorage/v0/b/o", <<Conf(storageBucket)>>, <<>>,
                      headers, 0)
     IN  \E resp \in Responses, fs_ok \in BOOLEAN :
           /\ Issue("check_storage_bucket", r, resp)
           /\ sent' = <<r>>
           /\ debugged' = Debug(r)
           /\ printed' = StorageListingLines(resp, fs_ok)
           /\ written' = IF Is200(resp) /\ resp.body.ok /\ fs_ok
                         THEN <<StorageListingName(auth_type)>>
                         ELSE <<>>
  /\ pc' = "storage_bucket_gcs"
  /\ UNCHANGED <<id_token, ctx, idx, accessible, invoked>>
  /\ Untouched

\* The request to the Google Cloud Storage API of one pass.
storage_bucket_gcs ==
  /\ pc = "storage_bucket_gcs"
  /\ LET hl == HeadersList(<<>>)
         r == Request("GET", "storage.googleapis.com", <<Conf(storageBucket)>>, <<>>,
                      hl[ctx], 0)
     IN  /\ \E resp \in Responses :
              /\ Issue("check_storage_bucket", r, resp)
              /\ printed' = IF resp.kind # "http" THEN <<"Google Cloud Storage check error">>
                            ELSE IF resp.status = 200
                              THEN <<"Google Cloud Storage accessible", "URL">>
                            ELSE <<>>
         /\ sent' = Append(sent, r)
         /\ debugged' = Debug(r)
         /\ NextPass("check_storage_bucket", "storage_bucket_firebase", hl)
  /\ UNCHANGED <<id_token, idx, accessible, invoked, written>>
  /\ Untouched

(* ----------------------------------------------------------------------- *)
(* check_storage_upload                                                    *)
(* ----------------------------------------------------------------------- *)
PocPrefix == <<"p", "o", "c", "_">>
PostSuffix == <<"_", "p", "o", "s", "t">>
\* filename = f"poc_{self.random_string}.json"
PocFile == PocPrefix \o random_string \o DotJson

UploadHeaders == HeadersList(<<<<"Content-Type", ApplicationJson>>>>)

check_storage_upload ==
  /\ pc = "check_storage_upload"
  /\ \/ Skip("check_storage_upload", "No storageBucket provided, skipping upload check")
     \/ Enter("check_storage_upload", "Checking storage upload capability",
              "storage_upload_post", 0)

\* The upload of one pass; a 200 is followed by the verifying GET.
storage_upload_post ==
  /\ pc = "storage_upload_post"
  /\ LET r == Request("POST", "firebasestorage/v0/b/o?name=", <<Conf(storageBucket)>>,
                      PocFile, UploadHeaders[ctx], 0)
     IN  /\ sent' = <<r>>
         /\ debugged' = Debug(r)
         /\ \E resp \in Responses :
              /\ Issue("check_storage_upload", r, resp)
              /\ IF Is200(resp)
                 THEN /\ printed' = <<"Upload successful">>
                      /\ pc' = "storage_upload_verify"
                      /\ UNCHANGED ctx
                 ELSE /\ printed' = IF resp.kind = "http" THEN <<"Upload failed">>
                                    ELSE <<"Upload check error">>
                      /\ NextPass("check_storage_upload", "storage_upload_post", UploadHeaders)
  /\ UNCHANGED <<id_token, idx, accessible, invoked, written>>
  /\ Untouched

\* The verifying GET outside the try: an exception of it ends the process with
\* a traceback, and C6_EarlyExitBeforeNetwork does not hold.
storage_upload_verify_untried ==
  /\ pc = "storage_upload_verify"
  /\ LET r == Request("GET", "firebasestorage/v0/b/o/?alt=media", <<Conf(storageBucket)>>,
                      PocFile, <<>>, 0)
     IN  /\ sent' = Append(sent, r)
         /\ debugged' = <<>>
         /\ \E resp \in Responses :
              /\ Issue("check_storage_upload", r, resp)
              /\ IF resp.kind # "http"
                 THEN Exit(1, "Traceback") /\ UNCHANGED ctx
                 ELSE /\ printed' = IF resp.status = 200 THEN <<"Upload verified", "URL">>
                                    ELSE <<>>
                      /\ NextPass("check_storage_upload", "storage_upload_post", UploadHeaders)
                      /\ UNCHANGED exit_code
  /\ UNCHANGED <<id_token, idx, accessible, invoked, written>>
  /\ UNCHANGED <<args, config, via, self_config, random_string>>

\* verify_response = requests.get(verify_url), inside the try of the upload.
storage_upload_verify ==
  /\ pc = "storage_upload_verify"
  /\ LET r == Request("GET", "firebasestorage/v0/b/o/?alt=media", <<Conf(storageBucket)>>,
                      PocFile, <<>>, 0)
     IN  /\ sent' = Append(sent, r)
         /\ debugged' = <<>>
         /\ \E resp \in Responses :
              /\ Issue("check_storage_upload", r, resp)
              /\ printed' = IF resp.kind # "http" THEN <<"Upload check error">>
                            ELSE IF resp.status = 200 THEN <<"Upload verified", "URL">>
                            ELSE <<>>
  /\ NextPass("check_storage_upload", "storage_upload_post", UploadHeaders)
  /\ UNCHANGED <<id_token, idx, accessible, invoked, written>>
  /\ Untouched


(* ----------------------------------------------------------------------- *)
(* check_database_url                                                      *)
(* ----------------------------------------------------------------------- *)
SlashO == <<"/", "o">>
Slash == <<"/">>
\* write_url, post_url, direct_put_url and direct_post_url, after database_url
WritePath == SlashO \o Slash \o PocPrefix \o random_string \o DotJson
PostPath == SlashO \o Slash \o PocPrefix \o random_string \o PostSuffix \o DotJson
DirectPutPath == Slash \o PocPrefix \o random_string \o DotJson
DirectPostPath == Slash \o PocPrefix \o random_string \o PostSuffix \o DotJson

check_database_url ==
  /\ pc = "check_database_url"
  /\ \/ Skip("check_database_url", "No databaseURL provided, skipping database checks")
     \/ Enter("check_database_url", "Checking database URL", "database_put_o", 0)

\* A PUT of check_database_url; a 200 is followed by the verifying GET.
DatabasePut(here, path, verify, after, first) ==
  /\ pc = here
  /\ LET r == Request("PUT", "databaseURL", <<Conf(databaseURL)>>, path,
                      HeadersList(<<>>)[ctx], 0)
     IN  /\ sent' = IF first THEN <<r>> ELSE Append(sent, r)
         /\ debugged' = Debug(r)
         /\ \E resp \in Responses :
              /\ Issue("check_database_url", r, resp)
              /\ printed' = IF resp.kind # "http" THEN <<"Database PUT error">>
                            ELSE IF resp.status = 200 THEN <<"Database PUT successful">>
                            ELSE <<"Database PUT failed">>
              /\ pc' = IF Is200(resp) THEN verify ELSE after
  /\ UNCHANGED <<id_token, ctx, idx, accessible, invoked, written>>
  /\ Untouched

\* The verifying GET outside the try: an exception of it ends the process with
\* a traceback, and C4_RunCompletes does not hold.
DatabaseVerifyUntried(here, path, after) ==
  /\ pc = here
  /\ LET r == Request("GET", "databaseURL", <<Conf(databaseURL)>>, path,
                      HeadersList(<<>>)[ctx], 0)
     IN  /\ sent' = Append(sent, r)
         /\ debugged' = <<>>
         /\ \E resp \in Responses :
              /\ Issue("check_database_url", r, resp)
              /\ IF resp.kind # "http"
                 THEN Exit(1, "Traceback")
                 ELSE /\ printed' = IF resp.status = 200
                                    THEN <<"Database PUT verified", "URL">>
                                    ELSE <<>>
                      /\ pc' = after
                      /\ UNCHANGED exit_code
  /\ UNCHANGED <<id_token, ctx, idx, accessible, invoked, written>>
  /\ UNCHANGED <<args, config, via, self_config, random_string>>

\* verify_response = requests.get(url, headers=headers), inside the try of the PUT
DatabaseVerify(here, path, after) ==
  /\ pc = here
  /\ LET r == Request("GET", "databaseURL", <<Conf(databaseURL)>>, path,
                      HeadersList(<<>>)[ctx], 0)
     IN  /\ sent' = Append(sent, r)
         /\ debugged' = <<>>
         /\ \E resp \in Responses :
              /\ Issue("check_database_url", r, resp)
              /\ printed' = IF resp.kind # "http" THEN <<"Database PUT error">>
                            ELSE IF resp.status = 200 THEN <<"Database PUT verified", "URL">>
                            ELSE <<>>
  /\ pc' = after
  /\ UNCHANGED <<id_token, ctx, idx, accessible, invoked, written>>
  /\ Untouched

DatabasePostLines(resp) ==
  IF resp.kind # "http" THEN <<"Database POST error">>
  ELSE IF resp.status = 200
    THEN <<"Database POST successful">>
           \o (IF resp.body.ok THEN <<"Created with ID">> ELSE <<>>)
  ELSE <<"Database POST failed">>

database_put_o == DatabasePut("database_put_o", WritePath, "database_verify_o",
                              "database_post_o", TRUE)
database_verify_o == DatabaseVerify("database_verify_o", WritePath, "database_post_o")

database_post_o ==
  /\ pc = "database_post_o"
  /\ LET r == Request("POST", "databaseURL", <<Conf(databaseURL)>>, PostPath,
                      HeadersList(<<>>)[ctx], 0)
     IN  /\ sent' = Append(sent, r)
         /\ debugged' = Debug(r)
         /\ \E resp \in Responses :
              /\ Issue("check_database_url", r, resp)
              /\ printed' = DatabasePostLines(resp)
  /\ pc' = "database_put_direct"
  /\ UNCHANGED <<id_token, ctx, idx, accessible, invoked, written>>
  /\ Untouched

database_put_direct == DatabasePut("database_put_direct", DirectPutPath,
                                   "database_verify_direct", "database_post_direct", FALSE)
database_verify_direct == DatabaseVerify("database_verify_direct", DirectPutPath,
                                         "database_post_direct")

\* The last request of one pass.
database_post_direct ==
  /\ pc = "database_post_direct"
  /\ LET hl == HeadersList(<<>>)
         r == Request("POST", "databaseURL", <<Conf(databaseURL)>>, DirectPostPath,
                      hl[ctx], 0)
     IN  /\ sent' = Append(sent, r)
         /\ debugged' = Debug(r)
         /\ \E resp \in Responses :
              /\ Issue("check_database_url", r, resp)
              /\ printed' = DatabasePostLines(resp)
         /\ NextPass("check_database_url", "database_put_o", hl)
  /\ UNCHANGED <<id_token, idx, accessible, invoked, written>>
  /\ Untouched

(* ----------------------------------------------------------------------- *)
(* check_database_accessibility                                            *)
(* ----------------------------------------------------------------------- *)
check_database_accessibility ==
  /\ pc = "check_database_accessibility"
  /\ \/ Skip("check_database_accessibility",
             "No databaseURL provided, skipping accessibility checks")
     \/ Enter("check_database_accessibility", "Checking database general accessibility",
              "database_endpoint", 1)

\* Whether the body of a 200 is written to a file: `if data:` and open succeed.
DatabaseSaved(resp, fs_ok) == Is200(resp) /\ resp.body.ok /\ Truthy(resp.body.v) /\ fs_ok

DatabaseEndpointLines(resp, fs_ok) ==
  IF resp.kind = "timeout" THEN <<"Database endpoint timeout">>
  ELSE IF resp.kind # "http" THEN <<>>
  ELSE IF resp.status = 200
    THEN <<"Database endpoint accessible">>
           \o (IF ~resp.body.ok THEN <<"Could not parse/save data">>
               ELSE IF ~Truthy(resp.body.v) THEN <<>>
               ELSE IF fs_ok THEN <<"Data saved">>
               ELSE <<"Could not parse/save data">>)
  ELSE IF resp.status = 401 THEN <<"Database endpoint requires auth">>
  ELSE IF resp.status = 404 THEN <<>>
  ELSE <<"Database endpoint status">>

\* The summary line after the last entry of a catalog.
Summary(found, last) ==
  IF ~last THEN <<>>
  ELSE IF found # <<>> THEN <<"Summary: Found accessible">>
  ELSE <<"Summary: No accessible found">>

\* A sweep that gives up its pass at the first path that times out.
database_endpoint_until_timeout ==
  /\ pc = "database_endpoint"
  /\ LET hl == HeadersList(<<>>)
         auth_type == AuthType(hl[ctx])
         endpoint == endpoints[idx]
         r == Request("GET", "databaseURL", <<Conf(databaseURL)>>, endpoint, hl[ctx], 5)
     IN  /\ sent' = IF idx = 1 THEN <<r>> ELSE Append(sent, r)
         /\ debugged' = <<>>
         /\ \E resp \in Responses, fs_ok \in BOOLEAN :
              LET found == (IF idx = 1 THEN <<>> ELSE accessible)
                             \o (IF Is200(resp) THEN <<endpoint>> ELSE <<>>)
                  last == idx = Len(endpoints) \/ resp.kind = "timeout"
              IN  /\ Issue("check_database_accessibility", r, resp)
                  /\ accessible' = found
                  /\ printed' = DatabaseEndpointLines(resp, fs_ok) \o Summary(found, last)
                  /\ written' = (IF idx = 1 THEN <<>> ELSE written)
                                  \o (IF DatabaseSaved(resp, fs_ok)
                                      THEN <<DatabaseFileName(endpoint, auth_type)>>
                                      ELSE <<>>)
                  /\ IF last
                     THEN /\ NextPass("check_database_accessibility", "database_endpoint", hl)
                          /\ idx' = 1
                     ELSE /\ idx' = idx + 1
                          /\ UNCHANGED <<pc, ctx>>
  /\ UNCHANGED <<id_token, invoked>>
  /\ Untouched

\* One iteration of `for endpoint in endpoints`; the last one of a pass prints
\* the summary.
database_endpoint ==
  /\ pc = "database_endpoint"
  /\ LET hl == HeadersList(<<>>)
         auth_type == AuthType(hl[ctx])
         endpoint == endpoints[idx]
         last == idx = Len(endpoints)
         r == Request("GET", "databaseURL", <<Conf(databaseURL)>>, endpoint, hl[ctx], 5)
     IN  /\ sent' = IF idx = 1 THEN <<r>> ELSE Append(sent, r)
         /\ debugged' = <<>>
         /\ \E resp \in Responses, fs_ok \in BOOLEAN :
              LET found == (IF idx = 1 THEN <<>> ELSE accessible)
                             \o (IF Is200(resp) THEN <<endpoint>> ELSE <<>>)
              IN  /\ Issue("check_database_accessibility", r, resp)
                  /\ accessible' = found
                  /\ printed' = DatabaseEndpointLines(resp, fs_ok) \o Summary(found, last)
                  /\ written' = (IF idx = 1 THEN <<>> ELSE written)
                                  \o (IF DatabaseSaved(resp, fs_ok)
                                      THEN <<DatabaseFileName(endpoint, auth_type)>>
                                      ELSE <<>>)
         /\ IF last
            THEN /\ NextPass("check_database_accessibility", "database_endpoint", hl)
                 /\ idx' = 1
            ELSE /\ idx' = idx + 1
                 /\ UNCHANGED <<pc, ctx>>
  /\ UNCHANGED <<id_token, invoked>>
  /\ Untouched

(* ----------------------------------------------------------------------- *)
(* check_remote_config                                                     *)
(* ----------------------------------------------------------------------- *)
\* What the 200 branch does with the decoded body: "saved", "not saved" (open
\* failed after the success line), "no template", "unknown", or "error" for an
\* exception of response.json(), `in` or .get.
RemoteConfigOutcome(resp, fs_ok) ==
  IF ~resp.body.ok THEN "error"
  ELSE LET result == resp.body.v
           has == PyIn(entries, result)
       IN  IF ~has.ok THEN "error"
           ELSE IF has.v THEN (IF fs_ok THEN "saved" ELSE "not saved")
           ELSE IF ~IsDict(result) THEN "error"
           ELSE IF HasKey(result, state) /\ Get(result, state) = JStr(NO_TEMPLATE)
             THEN "no template"
           ELSE "unknown"

RemoteConfigLines(resp, fs_ok) ==
  IF resp.kind # "http" THEN <<"Remote config check error">>
  ELSE IF resp.status # 200 THEN <<"Remote config check failed">>
  ELSE LET o == RemoteConfigOutcome(resp, fs_ok)
       IN  CASE o = "saved" -> <<"Remote config accessible", "Config saved">>
             [] o = "not saved" -> <<"Remote config accessible", "Remote config check error">>
             [] o = "no template" -> <<"Remote config: No template configured">>
             [] o = "unknown" -> <<"Remote config check: Unknown response">>
             [] OTHER -> <<"Remote config check error">>

check_remote_config ==
  /\ pc = "check_remote_config"
  /\ \/ Skip("check_remote_config", "Missing required fields for remote config check")
     \/ /\ Precondition("check_remote_config")
        /\ LET headers == <<<<"Content-Type", ApplicationJson>>>>
               r == Request("POST", "firebaseremoteconfig:fetch",
                            <<Conf(messagingSenderId), Conf(apiKey)>>, Conf(appId),
                            headers, 0)
           IN  \E resp \in Responses, fs_ok \in BOOLEAN :
                 /\ Issue("check_remote_config", r, resp)
                 /\ sent' = <<r>>
                 /\ debugged' = Debug(r)
                 /\ printed' = RemoteConfigLines(resp, fs_ok)
                 /\ written' = IF Is200(resp) /\ RemoteConfigOutcome(resp, fs_ok) = "saved"
                               THEN <<RemoteConfigFile>> ELSE <<>>
        /\ invoked' = Append(invoked, "check_remote_config")
        /\ pc' = AfterProbe("check_remote_config")
        /\ UNCHANGED <<id_token, ctx, idx, accessible>>
        /\ Untouched

(* ----------------------------------------------------------------------- *)
(* check_firestore_collections                                             *)
(* ----------------------------------------------------------------------- *)
check_firestore_collections ==
  /\ pc = "check_firestore_collections"
  /\ \/ Skip("check_firestore_collections",
             "No projectId provided, skipping Firestore collection checks")
     \/ Enter("check_firestore_collections", "Checking Firestore collections accessibility",
              "firestore_collection", 1)

\* `if data and 'documents' in data`, then open: "saved", "error" or "none".
FirestoreOutcome(resp, fs_ok) ==
  IF ~resp.body.ok THEN "error"
  ELSE IF ~Truthy(resp.body.v) THEN "none"
  ELSE LET has == PyIn(documents, resp.body.v)
       IN  IF ~has.ok THEN "error"
           ELSE IF ~has.v THEN "none"
           ELSE IF fs_ok THEN "saved" ELSE "error"

FirestoreLines(resp, fs_ok) ==
  IF resp.kind = "timeout" THEN <<"Firestore collection timeout">>
  ELSE IF resp.kind # "http" THEN <<>>
  ELSE IF resp.status = 200
    THEN <<"Firestore collection accessible">>
           \o (LET o == FirestoreOutcome(resp, fs_ok)
               IN  IF o = "saved" THEN <<"Collection data saved">>
                   ELSE IF o = "error" THEN <<"Could not parse/save collection data">>
                   ELSE <<>>)
  ELSE IF resp.status = 401 THEN <<"Firestore collection requires auth">>
  ELSE IF resp.status = 403 THEN <<"Firestore collection access denied">>
  ELSE IF resp.status = 404 THEN <<>>
  ELSE <<"Firestore collection status">>

\* One iteration of `for collection in collections`; the last one of a pass
\* prints the summary.
firestore_collection ==
  /\ pc = "firestore_collection"
  /\ LET hl == HeadersList(<<>>)
         auth_type == AuthType(hl[ctx])
         collection == collections[idx]
         last == idx = Len(collections)
         r == Request("GET", "firestore/documents", <<Conf(projectId)>>, collection,
                      hl[ctx], 10)
     IN  /\ sent' = IF idx = 1 THEN <<r>> ELSE Append(sent, r)
         /\ debugged' = <<>>
         /\ \E resp \in Responses, fs_ok \in BOOLEAN :
              LET found == (IF idx = 1 THEN <<>> ELSE accessible)
                             \o (IF Is200(resp) THEN <<collection>> ELSE <<>>)
              IN  /\ Issue("check_firestore_collections", r, resp)
                  /\ accessible' = found
                  /\ printed' = FirestoreLines(resp, fs_ok) \o Summary(found, last)
                  /\ written' = (IF idx = 1 THEN <<>> ELSE written)
                                  \o (IF Is200(resp) /\ FirestoreOutcome(resp, fs_ok) = "saved"
                                      THEN <<FirestoreFileName(collection, auth_type)>>
                                      ELSE <<>>)
         /\ IF last
            THEN /\ NextPass("check_firestore_collections", "firestore_collection", hl)
                 /\ idx' = 1
            ELSE /\ idx' = idx + 1
                 /\ UNCHANGED <<pc, ctx>>
  /\ UNCHANGED <<id_token, invoked>>
  /\ Untouched

(* ----------------------------------------------------------------------- *)
(* check_crashlytics                                                       *)
(* ----------------------------------------------------------------------- *)
check_crashlytics ==
  /\ pc = "check_crashlytics"
  /\ \/ Skip("check_crashlytics", "Missing required fields for Crashlytics check")
     \/ /\ Precondition("check_crashlytics")
        /\ LET headers == <<<<"X-Goog-Api-Key", Conf(apiKey)>>>>
               project == IF HasKey(self_config, projectId) THEN Conf(projectId) ELSE unknown
               r == Request("GET", "firebasecrashlytics/issues", <<project, Conf(appId)>>,
                            <<>>, headers, 0)
           IN  \E resp \in Responses :
                 /\ Issue("check_crashlytics", r, resp)
                 /\ sent' = <<r>>
                 /\ printed' = IF resp.kind # "http" THEN <<"Crashlytics check error">>
                               ELSE IF resp.status = 200 THEN <<"Crashlytics data accessible">>
                               ELSE <<"Crashlytics not accessible">>
        /\ debugged' = <<>>
        /\ written' = <<>>
        /\ invoked' = Append(invoked, "check_crashlytics")
        /\ pc' = AfterProbe("check_crashlytics")
        /\ UNCHANGED <<id_token, ctx, idx, accessible>>
        /\ Untouched

(* ----------------------------------------------------------------------- *)
(* The program                                                             *)
(* ----------------------------------------------------------------------- *)
\* The steps of run_all_checks.
RunAllChecks ==
  \/ check_registration
  \/ check_storage_bucket \/ storage_bucket_firebase \/ storage_bucket_gcs
  \/ check_storage_upload \/ storage_upload_post \/ storage_upload_verify
  \/ check_database_url \/ database_put_o \/ database_verify_o \/ database_post_o
  \/ database_put_direct \/ database_verify_direct \/ database_post_direct
  \/ check_database_accessibility \/ database_endpoint
  \/ check_remote_config
  \/ check_firestore_collections \/ firestore_collection
  \/ check_crashlytics
  \/ RunAllChecksReturn

Next == MainParse \/ MainOverride \/ Construct \/ RunAllChecks

Spec == Init /\ [][Next]_vars

\* Every request of the run comes back or raises, and run_all_checks goes on
\* to its next statement.
FairSpec == Spec /\ WF_vars(RunAllChecks)

(* ----------------------------------------------------------------------- *)
(* parse_firebase_config over all short texts                              *)
(* ----------------------------------------------------------------------- *)
MaxLen == 4
ParseAlphabet == {"{", "}", DQ, "a", ":", " "}
ParseTexts == UNION {[1..n -> ParseAlphabet] : n \in 0..MaxLen} \cup ConfigTexts

InitParse == \E t \in ParseTexts : Start(CommandLine(Given(t), NoFlags, FALSE))
NextParse == MainParse
ParseSpec == InitParse /\ [][NextParse]_vars

(* ----------------------------------------------------------------------- *)
(* main and the constructor over strict-JSON objects                       *)
(* ----------------------------------------------------------------------- *)
MaxValueLen == 2
ValueAlphabet == {" ", "a", "n", DQ, BS}
ValueTexts == UNION {[1..n -> ValueAlphabet] : n \in 0..MaxValueLen}

\* The values of the first key, and of a second key when there is one.
FirstValues ==
  {JStr(t) : t \in ValueTexts}
  \cup {JInt(0), JInt(7), JBool(TRUE), JBool(FALSE), JNull, EmptyDict, JArr(<<JStr(<<"a">>)>>)}
SecondValues == {JStr(<<"p">>), JStr(<<" ">>), JStr(<<" ", "p">>)}

Mappings ==
  {JObj(<<<<apiKey, v>>>>) : v \in FirstValues}
  \cup {JObj(<<<<apiKey, v>>, <<projectId, w>>>>) : v \in FirstValues, w \in SecondValues}

\* The command line is --firebase-config with the JSON text of a mapping.
InitConfig == \E m \in Mappings : Start(CommandLine(Given(Dumps(m)), NoFlags, FALSE))
NextConfig == MainParse \/ MainOverride \/ Construct
ConfigSpec == InitConfig /\ [][NextConfig]_vars

(* ----------------------------------------------------------------------- *)
(* parse_firebase_config over object literals with a colon in the value    *)
(* ----------------------------------------------------------------------- *)
\* The value of the Firebase console snippet.
ValProjectURL ==
  <<"h", "t", "t", "p", "s", ":", "/", "/", "p", "r", "o", "j", ".", "f", "i", "r",
    "e", "b", "a", "s", "e", "i", "o", ".", "c", "o", "m">>

MaxColonLen == 3
ColonAlphabet == {"a", ":", "/", " "}
ColonValues ==
  {ValProjectURL}
  \cup {v \in UNION {[1..n -> ColonAlphabet] : n \in 1..MaxColonLen} :
          \E i \in 1..Len(v) : v[i] = ":"}

\* key: value of an object literal, the key quoted with kq (or bare when kq
\* is empty) and the value quoted with vq.
LiteralMember(kq, key, vq, value) == kq \o key \o kq \o <<":", " ">> \o vq \o value \o vq

\* An object literal of one member, on one line or with the member on a line
\* of its own.
LiteralText(kq, vq, value, multiline) ==
  IF multiline
  THEN <<"{", NL, " ", " ">> \o LiteralMember(kq, databaseURL, vq, value) \o <<NL, "}">>
  ELSE <<"{">> \o LiteralMember(kq, databaseURL, vq, value) \o <<"}">>

KeyQuotes == {<<>>, <<DQ>>}
ValueQuotes == {<<DQ>>, <<SQ>>}
LiteralTexts ==
  {LiteralText(kq, vq, value, multiline) :
     kq \in KeyQuotes, vq \in ValueQuotes, value \in ColonValues, multiline \in BOOLEAN}

InitLiteral == \E t \in LiteralTexts : Start(CommandLine(Given(t), NoFlags, FALSE))
NextLiteral == MainParse
LiteralSpec == InitLiteral /\ [][NextLiteral]_vars

(* ----------------------------------------------------------------------- *)
(* parse_firebase_config over key: value lines without braces              *)
(* ----------------------------------------------------------------------- *)
MaxLines == 2
\* The key of the line at each place of the text.
LineKeys == <<apiKey, projectId, appId>>
LineValues == {<<"X">>, <<"x", " ", "y">>}
Quotes == {<<>>, <<DQ>>, <<SQ>>}

\* What one line is written with: the quote around its key, the quote around
\* its value, and the value.
LineForms == [kq : Quotes, vq : Quotes, value : LineValues]

\* The line  key: value  of form f at place i.
LineText(f, i) == f.kq \o LineKeys[i] \o f.kq \o <<":", " ">> \o f.vq \o f.value \o f.vq

\* The lines of the forms fs from place i on, one below the other.
RECURSIVE LinesFrom(_, _)
LinesFrom(fs, i) ==
  IF i > Len(fs) THEN <<>>
  ELSE LineText(fs[i], i) \o (IF i < Len(fs) THEN <<NL>> ELSE <<>>) \o LinesFrom(fs, i + 1)

LinesForms == UNION {[1..n -> LineForms] : n \in 1..MaxLines}

InitLines ==
  \E fs \in LinesForms : Start(CommandLine(Given(LinesFrom(fs, 1)), NoFlags, FALSE))
NextLines == MainParse
LinesSpec == InitLines /\ [][NextLines]_vars

(* ----------------------------------------------------------------------- *)
(* The credential                                                          *)
(* ----------------------------------------------------------------------- *)
\* A step in which check_registration got a 200 for its sign-up request.
SignUp200 ==
  /\ pc = "check_registration"
  /\ last_req' # <<>>
  /\ last_req'[1].method = "POST"
  /\ last_req'[1].api = "identitytoolkit/accounts:signUp"
  /\ last_resp'[1].kind = "http"
  /\ last_resp'[1].status = 200

\* C1: id_token starts absent; it changes only in check_registration, only on a
\* 200 sign-up response and only from absent, so it is written at most once
\* and, once present, no later step clears or replaces it.
C1_CredentialOneWay ==
  /\ id_token = JNull
  /\ [][id_token' # id_token => (id_token = JNull /\ SignUp200)]_vars

\* The run has ended with a credential that every later probe has seen.
C1_Witness ==
  /\ pc = "all_checks_completed"
  /\ id_token = JStr(<<"t", "o", "k">>)
  /\ <<"check_database_url", "Bearer">> \in attempted

(* ----------------------------------------------------------------------- *)
(* Authentication contexts                                                 *)
(* ----------------------------------------------------------------------- *)
\* The probes that loop over headers_list, and the two that send one request.
C2_Looping ==
  {"check_storage_bucket", "check_storage_upload", "check_database_url",
   "check_database_accessibility", "check_firestore_collections"}
C2_Single == {"check_remote_config", "check_crashlytics"}

\* The keys each probe needs, as the specification lists them.
C3_Required(p) ==
  CASE p = "check_registration" -> {apiKey}
    [] p \in {"check_storage_bucket", "check_storage_upload"} -> {storageBucket}
    [] p \in {"check_database_url", "check_database_accessibility"} -> {databaseURL}
    [] p = "check_remote_config" -> {apiKey, messagingSenderId, appId}
    [] p = "check_firestore_collections" -> {projectId}
    [] p = "check_crashlytics" -> {apiKey, appId}

C3_Holds(p) == \A k \in C3_Required(p) : HasKey(self_config, k)

Under(p, scheme) == <<p, scheme>> \in attempted

\* C2 as stated: at the end of a run every probe whose precondition holds was
\* attempted anonymously, and under Bearer and under Firebase exactly when
\* registration acquired a credential (here: a token that is not empty).
C2_AsStated ==
  pc = "all_checks_completed" =>
    \A p \in C2_Looping \cup C2_Single :
      C3_Holds(p) =>
        /\ Under(p, "anonymous")
        /\ Under(p, "Bearer") <=> Truthy(id_token)
        /\ Under(p, "Firebase") <=> Truthy(id_token)

\* C2, amended: the five looping probes are attempted anonymously, and under
\* Bearer and Firebase exactly when the credential is a non-empty token; remote
\* config and crash-report access are attempted once, never with an
\* Authorization header; a probe whose precondition fails attempts nothing.
C2_Contexts ==
  pc = "all_checks_completed" =>
    /\ \A p \in C2_Looping :
         C3_Holds(p) =>
           /\ Under(p, "anonymous")
           /\ Under(p, "Bearer") <=> Truthy(id_token)
           /\ Under(p, "Firebase") <=> Truthy(id_token)
    /\ \A p \in C2_Single :
         C3_Holds(p) =>
           /\ Under(p, "anonymous")
           /\ ~Under(p, "Bearer")
           /\ ~Under(p, "Firebase")
    /\ \A p \in C2_Looping \cup C2_Single :
         ~C3_Holds(p) => \A scheme \in {"anonymous", "Bearer", "Firebase"} : ~Under(p, scheme)

\* A run with a credential in which the Firestore sweep ran under Firebase and
\* remote config was attempted.
C2_Witness ==
  /\ pc = "all_checks_completed"
  /\ Truthy(id_token)
  /\ Under("check_firestore_collections", "Firebase")
  /\ Under("check_storage_upload", "Bearer")
  /\ Under("check_remote_config", "anonymous")

(* ----------------------------------------------------------------------- *)
(* Skipped probes                                                          *)
(* ----------------------------------------------------------------------- *)
SkipLines ==
  {"No apiKey provided, skipping registration check",
   "No storageBucket provided, skipping check",
   "No storageBucket provided, skipping upload check",
   "No databaseURL provided, skipping database checks",
   "No databaseURL provided, skipping accessibility checks",
   "Missing required fields for remote config check",
   "No projectId provided, skipping Firestore collection checks",
   "Missing required fields for Crashlytics check"}

\* C3: a probe called without a key it requires prints its skip line and
\* returns: no request, no file, the credential and the record of requests
\* unchanged, and the next probe is up.
C3_SkipIsInert ==
  [][\A p \in {RunOrder[i] : i \in 1..Len(RunOrder)} :
       (pc = p /\ ~C3_Holds(p)) =>
         /\ Len(printed') = 1
         /\ printed'[1] \in SkipLines
         /\ last_req' = <<>>
         /\ sent' = <<>>
         /\ written' = <<>>
         /\ networked' = networked
         /\ attempted' = attempted
         /\ id_token' = id_token
         /\ invoked' = Append(invoked, p)
         /\ pc' # p]_vars

\* The database sweep was skipped while a credential was held.
C3_Witness ==
  /\ pc = "check_remote_config"
  /\ ~HasKey(self_config, databaseURL)
  /\ printed = <<"No databaseURL provided, skipping accessibility checks">>
  /\ id_token # JNull
  /\ networked

(* ----------------------------------------------------------------------- *)
(* The run                                                                 *)
(* ----------------------------------------------------------------------- *)
Probes ==
  {"check_registration", "check_storage_bucket", "check_storage_upload",
   "check_database_url", "check_database_accessibility", "check_remote_config",
   "check_firestore_collections", "check_crashlytics"}

\* The tester exists and run_all_checks has not returned.
Running == pc \notin {"main", "override", "construct", "exit"}

\* How often probe p was called.
Calls(p) == Cardinality({i \in 1..Len(invoked) : invoked[i] = p})

\* The process has ended after "All checks completed!", every probe having
\* been called exactly once.
Completed ==
  /\ pc = "exit"
  /\ exit_code = 0
  /\ printed = <<"All checks completed!">>
  /\ \A p \in Probes : Calls(p) = 1

\* C4: once the tester is constructed the run reaches "All checks completed!"
\* with every probe called exactly once, whatever each request came back with
\* and whether or not each file could be written.
C4_RunCompletes == Running ~> Completed

\* The last probe is about to return after a request that raised, in a run in
\* which an upload was answered with a server error and a sweep timed out.
C4_Witness ==
  /\ pc = "all_checks_completed"
  /\ \A p \in Probes : Calls(p) = 1
  /\ last_resp # <<>>
  /\ last_resp[1].kind = "error"
  /\ networked

\* The probes the specification orders, in its order.
C5_Listed ==
  <<"check_registration", "check_storage_bucket", "check_storage_upload",
    "check_database_url", "check_database_accessibility", "check_remote_config",
    "check_crashlytics">>

C5_Seen == SelectSeq(invoked, LAMBDA p : \E i \in 1..Len(C5_Listed) : C5_Listed[i] = p)

\* The steps that read id_token.
C5_Readers ==
  {"storage_bucket_firebase", "storage_bucket_gcs", "storage_upload_post",
   "database_put_o", "database_verify_o", "database_post_o", "database_put_direct",
   "database_verify_direct", "database_post_direct", "database_endpoint",
   "firestore_collection"}

ParseFailed ==
  /\ ArgTruthy(args.firebase_config)
  /\ ~ParseFirebaseConfig(args.firebase_config.v).ok

\* Neither --firebase-config nor the flags gave main anything.
NoConfiguration ==
  /\ ~ParseFailed
  /\ ~Truthy(config)
  /\ \A i \in 1..Len(FlagKeys) : ~ArgTruthy(args.flags[i])

\* C6: the process ends either after the whole run, status 0, or with status 1
\* before the tester has called any probe and before any request; a failed
\* parse and an empty configuration end it the second way.
C6_EarlyExitBeforeNetwork ==
  /\ pc = "exit" =>
       \/ exit_code = 0 /\ \A p \in Probes : Calls(p) = 1
       \/ exit_code = 1 /\ ~networked /\ invoked = <<>> /\ attempted = {}
  /\ (pc \notin {"main", "override"} /\ (ParseFailed \/ NoConfiguration)) =>
       (pc = "exit" /\ exit_code = 1 /\ ~networked)
  /\ networked => (pc = "exit" => exit_code = 0)

\* main has exited on a text that parse_firebase_config rejected.
C6_Witness ==
  /\ pc = "exit"
  /\ exit_code = 1
  /\ ParseFailed
  /\ printed = <<"Parsing Firebase configuration...", "Error parsing Firebase config">>
  /\ ~networked

\* C7 as stated: the exit status is 1 exactly when parsing failed or no
\* configuration could be assembled, and 0 otherwise.
C7_ExitStatus ==
  pc = "exit" => (exit_code = 1 <=> (ParseFailed \/ NoConfiguration))

\* The process has ended with status 1 although --api-key gave a
\* configuration and nothing was to be parsed.
C7_Witness ==
  /\ pc = "exit"
  /\ exit_code = 1
  /\ ~args.firebase_config.given
  /\ Truthy(config)
  /\ printed = <<"Traceback">>

(* ----------------------------------------------------------------------- *)
(* ConfigMap                                                               *)
(* ----------------------------------------------------------------------- *)
\* The tester has been constructed from the mapping main handed it.
Cleaning == pc = "check_registration" /\ invoked = <<>>

\* C8 as stated: every value kept in self.config is a string that is not
\* empty and has no whitespace at either end.
C8_ValuesTrimmedNonEmpty ==
  Cleaning =>
    \A i \in 1..Len(self_config.v) :
      LET value == self_config.v[i][2]
      IN  /\ value.t = "str"
          /\ value.v # <<>>
          /\ Strip(value.v) = value.v

\* The tester holds apiKey with the empty string for a value, so the
\* registration probe will not skip.
C8_Witness ==
  /\ Cleaning
  /\ HasKey(self_config, apiKey)
  /\ Get(self_config, apiKey) = JStr(<<>>)
  /\ Precondition("check_registration")

\* The standard decoding of the text given to --firebase-config.
Decoded == JsonLoads(args.firebase_config.v)

\* The pairs of a decoded object whose value is not the empty string.
RECURSIVE WithoutEmpty(_)
WithoutEmpty(pairs) ==
  IF pairs = <<>> THEN <<>>
  ELSE (IF pairs[1][2] = JStr(<<>>) THEN <<>> ELSE <<pairs[1]>>) \o WithoutEmpty(Tail(pairs))

\* A string that the dump, the escape decoding and the second json.loads of the
\* cleaning step leave as it is.
PlainText(t) == \A i \in 1..Len(t) : t[i] \notin {DQ, BS} \cup ControlChars
PlainValue(x) == x.t = "str" => PlainText(x.v)
Plain(d) == \A i \in 1..Len(d.v) : PlainValue(d.v[i][2])

\* No value is a string of whitespace only.
NoBlank(d) ==
  \A i \in 1..Len(d.v) :
    LET x == d.v[i][2] IN (x.t = "str" /\ x.v # <<>>) => Strip(x.v) # <<>>

RECURSIVE Expected(_)
Expected(pairs) ==
  IF pairs = <<>> THEN <<>>
  ELSE (IF Truthy(pairs[1][2])
        THEN <<<<pairs[1][1], JStr(Strip(PyStr(pairs[1][2])))>>>>
        ELSE <<>>)
       \o Expected(Tail(pairs))

C10_NeverEmptyMapping ==
  (pc = "override" /\ args.firebase_config.v # <<>>) =>
    (IsDict(config) /\ config.v # <<>>)

\* Strategy 2 has returned the empty mapping for a text of one space.
C10_Witness ==
  /\ pc = "override"
  /\ args.firebase_config.v = <<" ">>
  /\ via = 2
  /\ config = EmptyDict

\* C11 as stated: for an object literal whose quoted value holds a colon, the
\* parser returns the key mapped to the complete value: the colon inside the
\* quotes is no key/value separator and no part of the value is removed.
C11_ColonValueKept ==
  \A kq \in KeyQuotes, vq \in ValueQuotes, value \in ColonValues, multiline \in BOOLEAN :
    (pc # "main" /\ args.firebase_config.v = LiteralText(kq, vq, value, multiline)) =>
      /\ pc = "override"
      /\ config = JObj(<<<<databaseURL, JStr(value)>>>>)

\* The console snippet  {databaseURL: "https://proj.firebaseio.com"}  has come
\* back from the fallback with the brace and a quote in the key and with the
\* value cut after its colon.
C11_Witness ==
  /\ pc = "override"
  /\ args.firebase_config.v = LiteralText(<<>>, <<DQ>>, ValProjectURL, FALSE)
  /\ via = 3
  /\ config = JObj(<<<<(<<"{", DQ>> \o databaseURL),
                       JStr(<<DQ, "h", "t", "t", "p", "s", ":">>)>>>>)

(* ----------------------------------------------------------------------- *)
(* Outcomes by status                                                      *)
(* ----------------------------------------------------------------------- *)
\* The lines by which a probe says that access was denied.
DeniedLines ==
  {"Database endpoint requires auth", "Firestore collection requires auth",
   "Firestore collection access denied"}

\* The lines a probe prints for a status it does not handle.
GenericLines ==
  {"Registration check failed", "Storage bucket check failed", "Upload failed",
   "Database PUT failed", "Database POST failed", "Database endpoint status",
   "Remote config check failed", "Firestore collection status",
   "Crashlytics not accessible"}

Lines(ls) == {ls[i] : i \in 1..Len(ls)}

\* The step issues a request that comes back with one of the statuses.
Answered(statuses) ==
  /\ last_resp' # <<>>
  /\ last_resp'[1].kind = "http"
  /\ last_resp'[1].status \in statuses

\* The step starts the list of the files of a pass anew.
FirstOfPass ==
  \/ pc \in {"storage_bucket_firebase", "check_remote_config"}
  \/ pc \in {"database_endpoint", "firestore_collection"} /\ idx = 1

\* The step writes a result file.
FileWritten ==
  /\ written' # <<>>
  /\ FirstOfPass \/ Len(written') > Len(written)

\* A 401 or a 403 writes no file, and a file is written on a 200 only.
FilesOnlyOn200 ==
  /\ Answered({401, 403}) => ~FileWritten
  /\ FileWritten => Answered({200})

\* C12 as stated: in every probe a 401 or a 403 is reported as access denied,
\* by a line that is not the line for the other statuses, and writes no result
\* file; a result file is written for a 200 only.
C12_DeniedReported ==
  [][/\ Answered({401, 403}) =>
          /\ Lines(printed') \cap DeniedLines # {}
          /\ Lines(printed') \cap GenericLines = {}
     /\ FilesOnlyOn200]_vars

\* The part of C12 about files, which the code keeps.
C12_FilesOnlyOn200 == [][FilesOnlyOn200]_vars

\* The database sweep got a 403 and printed the line of the other statuses.
C12_Witness ==
  /\ last_resp # <<>>
  /\ last_resp[1].kind = "http"
  /\ last_resp[1].status = 403
  /\ last_req[1].api = "databaseURL"
  /\ last_req[1].method = "GET"
  /\ last_req[1].timeout = 5
  /\ "Database endpoint status" \in Lines(printed)
  /\ Lines(printed) \cap DeniedLines = {}

\* A sweep has written a result file for a 200.
C12_Saved ==
  /\ last_resp # <<>>
  /\ Is200(last_resp[1])
  /\ written # <<>>
  /\ "Data saved" \in Lines(printed)

(* ----------------------------------------------------------------------- *)
(* Status lines                                                            *)
(* ----------------------------------------------------------------------- *)
SummaryLines == {"Summary: Found accessible", "Summary: No accessible found"}

\* The lines of the step that are about its request.
StatusLines(ls) == Lines(ls) \ SummaryLines

\* The step is a probe returning at once for a missing key.
Skipped ==
  /\ pc \in Probes
  /\ ~Precondition(pc)
  /\ invoked' = Append(invoked, pc)

\* The step issues a request that raises.
Raised ==
  /\ last_resp' # <<>>
  /\ last_resp'[1].kind \in {"timeout", "error"}

\* C13 as stated: every precondition skip prints its line, and every request
\* that ends in a 200, a 401 or 403, a network error or a timeout has a status
\* line printed for it in its own step, before the next request.
C13_NoSilentOutcome ==
  [][/\ Skipped => Lines(printed') \cap SkipLines # {}
     /\ (Answered({200, 401, 403}) \/ Raised) => StatusLines(printed') # {}]_vars

\* A request of the database sweep raised a connection error and nothing was
\* printed for it.
C13_Witness ==
  /\ last_resp # <<>>
  /\ last_resp[1].kind = "error"
  /\ last_req[1].api = "databaseURL"
  /\ last_req[1].timeout = 5
  /\ pc = "database_endpoint"
  /\ printed = <<>>

(* ----------------------------------------------------------------------- *)
(* Debug mode                                                              *)
(* ----------------------------------------------------------------------- *)
\* C14 as stated: with --debug, every request a probe issues, those of the
\* sweeps, the verification reads and the crash-report request included, is
\* printed through _print_debug in the step that sends it.
C14_DebugBeforeRequest ==
  [][(args.debug /\ last_req' # <<>>) => debugged' = last_req']_vars

\* With --debug, a GET of the database sweep was sent and _print_debug was not
\* called for it.
C14_Witness ==
  /\ args.debug
  /\ last_req # <<>>
  /\ last_req[1].method = "GET"
  /\ last_req[1].api = "databaseURL"
  /\ last_req[1].timeout = 5
  /\ debugged = <<>>

\* With --debug, the upload POST was printed through _print_debug.
C14_Printed ==
  /\ args.debug
  /\ last_req # <<>>
  /\ last_req[1].method = "POST"
  /\ debugged = last_req

(* ----------------------------------------------------------------------- *)
(* The sweeps                                                              *)
(* ----------------------------------------------------------------------- *)
\* The GET of the database sweep for the i-th path of its catalog.
DatabaseGet(i, headers) ==
  Request("GET", "databaseURL", <<Conf(databaseURL)>>, endpoints[i], headers, 5)

\* The GET of the Firestore sweep for the i-th collection of its catalog.
FirestoreGet(i, headers) ==
  Request("GET", "firestore/documents", <<Conf(projectId)>>, collections[i], headers, 10)

\* The last request was the sweep's GET for entry i of its catalog: the pass
\* has sent one GET for each entry up to i, in order and under the same
\* headers, and nothing else; before the last entry the sweep is about to ask
\* for entry i + 1 in the same pass, and after the last entry either the pass
\* of the next headers is up or, after the pass of the last headers, the next
\* probe.
SweepInOrder(p, here, api, catalog, SweepGet(_, _)) ==
  (last_req # <<>> /\ last_req[1].api = api /\ last_req[1].method = "GET"
     /\ last_req[1].timeout > 0) =>
    LET headers == last_req[1].headers
        hl == HeadersList(<<>>)
    IN  \E i \in 1..Len(catalog) :
          /\ last_req[1] = SweepGet(i, headers)
          /\ sent = [j \in 1..i |-> SweepGet(j, headers)]
          /\ IF i < Len(catalog)
             THEN /\ pc = here
                  /\ idx = i + 1
                  /\ ctx \in 1..Len(hl)
                  /\ hl[ctx] = headers
             ELSE /\ idx = 1
                  /\ IF pc = here
                     THEN ctx \in 2..Len(hl) /\ hl[ctx - 1] = headers
                     ELSE pc = AfterProbe(p) /\ hl[Len(hl)] = headers

\* C15: for each authentication context in use, the database sweep sends
\* exactly one GET per path of its catalog under databaseURL and the Firestore
\* sweep exactly one GET per collection name, whatever the earlier requests
\* came back with: nothing is retried and no failure, denial or timeout ends a
\* pass early.
C15_SweepsComplete ==
  /\ SweepInOrder("check_database_accessibility", "database_endpoint", "databaseURL",
                  endpoints, DatabaseGet)
  /\ SweepInOrder("check_firestore_collections", "firestore_collection",
                  "firestore/documents", collections, FirestoreGet)

\* The database sweep has finished its third pass, the one under the Firebase
\* scheme, with a timeout for the last path, and the remote config probe is up.
C15_Witness ==
  /\ pc = "check_remote_config"
  /\ HasKey(self_config, databaseURL)
  /\ Len(HeadersList(<<>>)) = 3
  /\ last_req = <<DatabaseGet(Len(endpoints), HeadersList(<<>>)[3])>>
  /\ last_resp[1].kind = "timeout"
  /\ Len(sent) = Len(endpoints)

(* ----------------------------------------------------------------------- *)
(* Individual flags                                                        *)
(* ----------------------------------------------------------------------- *)
\* The flag of key k, if it has one, was provided.
Flagged(k) == \E i \in 1..Len(FlagKeys) : FlagKeys[i] = k /\ ArgTruthy(args.flags[i])

\* The configuration after has the value of every flag provided under the key
\* of the flag, and otherwise exactly the keys of the configuration before,
\* with their values.
FlagsApplied(before, after) ==
  /\ \A i \in 1..Len(FlagKeys) :
       ArgTruthy(args.flags[i]) =>
         /\ HasKey(after, FlagKeys[i])
         /\ Get(after, FlagKeys[i]) = JStr(args.flags[i].v)
  /\ IsDict(before) =>
       \A k \in Keys(before) :
         ~Flagged(k) => (HasKey(after, k) /\ Get(after, k) = Get(before, k))
  /\ IsDict(after) =>
       \A k \in Keys(after) : ~Flagged(k) => HasKey(before, k)

\* C16 as stated: the override block of main, which starts from what was
\* parsed, sets the key of every flag provided, replacing the parsed value or
\* adding the key, and leaves every other key with its parsed value; after it
\* no step of the constructor or of a probe changes main's configuration, nor
\* a step of a probe the tester's.
C16_FlagsOverride ==
  [][/\ pc = "override" => FlagsApplied(config, config')
     /\ pc \notin {"main", "override"} => UNCHANGED config
     /\ pc \notin {"main", "override", "construct"} => UNCHANGED self_config]_vars

\* --storage-bucket was given with a --firebase-config text that parsed to a
\* list: the assignment raised TypeError and the configuration has no
\* storageBucket.
C16_Witness ==
  /\ pc = "exit"
  /\ exit_code = 1
  /\ printed = <<"TypeError">>
  /\ via = 1
  /\ ArgTruthy(args.flags[5])
  /\ ~HasKey(config, storageBucket)

\* The flags replaced databaseURL and added apiKey in a parsed mapping, and
\* the run has come to its end with that configuration.
C16_Applied ==
  /\ pc = "exit"
  /\ exit_code = 0
  /\ args.flags = FlagsKeyAndDatabase
  /\ args.firebase_config = Given(TextNoApiKey)
  /\ Get(config, databaseURL) = JStr(ValDatabaseUrl)
  /\ Get(config, apiKey) = JStr(ValAIza1)
  /\ HasKey(config, storageBucket)

(* ----------------------------------------------------------------------- *)
(* The line-by-line fallback                                               *)
(* ----------------------------------------------------------------------- *)
\* The mapping of the lines of forms fs: the key of each line to its value.
LinesMapping(fs) == JObj([i \in 1..Len(fs) |-> <<LineKeys[i], JStr(fs[i].value)>>])

\* C17 as stated: a text of key: value lines without braces that neither
\* strategy 1 nor strategy 2 accepts comes back from the fallback as the
\* mapping of the keys of the lines to the values of the lines, quotes and
\* whitespace around both stripped; nothing of the brace and the quotes that
\* strategy 2 put in is in a key or a value.
C17_LinesFallback ==
  \A fs \in LinesForms :
    (pc # "main" /\ args.firebase_config.v = LinesFrom(fs, 1) /\ via \notin {1, 2}) =>
      /\ pc = "override"
      /\ via = 3
      /\ config = LinesMapping(fs)

\* The text  apiKey: X  has come back from the fallback with the brace and a
\* quote of strategy 2 in its key and the closing brace in its value.
C17_Witness ==
  /\ pc = "override"
  /\ via = 3
  /\ args.firebase_config.v = apiKey \o <<":", " ", "X">>
  /\ config = JObj(<<<<(<<"{", DQ>> \o apiKey), JStr(<<"X", "}">>)>>>>)

(* ----------------------------------------------------------------------- *)
(* Labels and result file names                                            *)
(* ----------------------------------------------------------------------- *)
\* The labels of the authentication contexts of a probe, in order.
Labels == [i \in 1..Len(HeadersList(<<>>)) |-> AuthType(HeadersList(<<>>)[i])]

\* The names of the result files of the passes with the labels ls.
ListingNames(ls) == {StorageListingName(ls[i]) : i \in 1..Len(ls)}
DatabaseNames(ls) ==
  {DatabaseFileName(AllEndpoints[e], ls[i]) : e \in 1..Len(AllEndpoints), i \in 1..Len(ls)}
FirestoreNames(ls) ==
  {FirestoreFileName(AllCollections[c], ls[i]) : c \in 1..Len(AllCollections), i \in 1..Len(ls)}

\* The labels are pairwise distinct, and so are the file names of distinct
\* (probe, endpoint or collection, authentication context) triples.
DistinctNames(ls) ==
  /\ Cardinality(Lines(ls)) = Len(ls)
  /\ Cardinality(ListingNames(ls)) = Len(ls)
  /\ Cardinality(DatabaseNames(ls)) = Len(AllEndpoints) * Len(ls)
  /\ Cardinality(FirestoreNames(ls)) = Len(AllCollections) * Len(ls)
  /\ Cardinality(ListingNames(ls) \cup DatabaseNames(ls) \cup FirestoreNames(ls)
                   \cup {RemoteConfigFile})
       = Len(ls) * (1 + Len(AllEndpoints) + Len(AllCollections)) + 1

\* C18 as stated: whatever credential the registration probe has left, the
\* authentication contexts of the probes after it have pairwise distinct
\* labels and distinct triples have distinct file names; a step that writes a
\* file writes none that the pass has written already and, at the start of a
\* pass, none that the pass before wrote.
C18_DistinctFiles ==
  [][/\ pc = "check_storage_bucket" => DistinctNames(Labels)
     /\ FileWritten =>
          /\ Cardinality(Lines(written')) = Len(written')
          /\ FirstOfPass => Lines(written') \cap Lines(written) = {}]_vars

\* The credential holds the word Bearer: the pass under the Firebase scheme of
\* the database sweep has the label of the Bearer pass and has written the
\* file that the Bearer pass wrote.
C18_Witness ==
  /\ pc = "database_endpoint"
  /\ ctx = 3
  /\ idx = 2
  /\ Truthy(id_token)
  /\ Labels[2] = authenticatedBearer
  /\ Labels[3] = authenticatedBearer
  /\ SchemeOf(last_req[1].headers) = "Firebase"
  /\ written = <<DatabaseFileName(endpoints[1], authenticatedBearer)>>
====
